---- MODULE Spec2Model ----
(***************************************************************************)
(* Model of ai-mux's credential lifecycle engine: one CredentialManager    *)
(* (internal/aimux), its Start / Shutdown / read operations called from    *)
(* concurrent goroutines, the background refreshLoop goroutines it spawns, *)
(* the RWMutex m.mu, the stop channel, the token refresher and the store.  *)
(*                                                                         *)
(* Time is a logical clock `now`; a token or a time is a small value.      *)
(* Every step between two synchronisation points (lock acquire, channel    *)
(* operation, network or disk I/O) is one action.  A read-locked section   *)
(* contains only local computation, so RLock .. RUnlock is one action      *)
(* guarded by "no writer holds m.mu".  AuthorizationHeader, IsAvailable    *)
(* and ExtraHeaders are called by any number of request goroutines: each   *)
(* call is one such action, enabled when its RLock can be taken.           *)
(***************************************************************************)
EXTENDS Integers, Sequences, FiniteSets, TLC

\* ----------------------------------------------------------------- bounds
NumCallers == 1      \* goroutines that call the manager's methods
MaxStarts == 2       \* Start calls that pass the started check (channels made)
MaxTime == 2         \* the clock runs from StartTime to MaxTime

\* ------------------------------------------------------- program values
ZeroTime == 0        \* time.Time{}: ExpiresAt.IsZero()
StartTime == ZeroTime + 1   \* the clock at construction
NilCh == 0           \* the nil channel / no channel
NoHolder == 0        \* m.mu is not write-locked
RefreshInterval == 2 \* m.refreshInterval, in clock units
Lifetimes == {1, RefreshInterval + 1}  \* expires_in of a token response: inside / outside the window

NoTok == ""
LoadedTok == "tok-loaded"
NewTok == "tok-new"
LoadedRT == "rt-loaded"
MetaLoaded == "meta-loaded"   \* the metadata built by Store.Load
MetaFresh == "meta-fresh"     \* the metadata object a refresher constructs

NoErr == "nil"
ErrMissingRT == "refresh token is missing"
ErrRefresher == "refresher error"
ErrEmptyAT == "refresh returned empty access token"
ErrUnavailable == "provider is not available: credentials not ready"

Callers == 1..NumCallers
Chans == 1..MaxStarts
LoopOf(c) == NumCallers + c          \* the goroutine launched by the Start that made channel c
Loops == {LoopOf(c) : c \in Chans}
Threads == Callers \cup Loops

VARIABLES
    now,          \* time.Now()
    creds,        \* m.creds
    file,         \* the record held by the credential file
    started,      \* m.started
    stopCh,       \* m.stopCh (NilCh or a channel)
    closed,       \* the channels that have been closed
    made,         \* number of channels made so far
    mu,           \* m.mu: the goroutine holding the write lock, or NoHolder
    pc,           \* where each goroutine is
    n0,           \* refreshIfNeeded's local `now`
    newc,         \* refreshLocked's local newCreds
    rerr,         \* the error refreshIfNeeded returned to its caller
    mych,         \* Start: the channel it made; Shutdown: its local `stop`
    sel,          \* refreshLoop: m.stopCh as evaluated on entry to the select
    res,          \* the value a call is returning (set by the step that returns)
    ctxDone,      \* the context given to Start is cancelled
    refresherOK,  \* from now on the token endpoint answers every exchange with a usable token
    users,        \* s.auth.tokenToUser: the configured users, token -> name
    req,          \* the request Service.ServeHTTP is handling, and how far it got
    call          \* one call of a function of the program: its name, inputs and result

\* the state of the Service around the manager
svars == <<users, req, call>>

vars == <<now, creds, file, started, stopCh, closed, made, mu, pc, n0, newc,
          rerr, mych, sel, res, ctxDone, refresherOK, svars>>

\* --------------------------------------------------------- pure functions

Cred(at, rt, exp, meta) == [at |-> at, rt |-> rt, exp |-> exp, meta |-> meta]

NoCreds == Cred(NoTok, NoTok, ZeroTime, MetaLoaded)

\* tokenValidLocked with ExpiresAt.After(now) written as !ExpiresAt.Before(now)
tokenValidLocked_NotBefore(c, n) ==
    IF c.at = NoTok THEN FALSE
    ELSE IF c.exp = ZeroTime THEN TRUE
    ELSE c.exp >= n

\* tokenValidLocked(now)
tokenValidLocked(c, n) ==
    IF c.at = NoTok THEN FALSE
    ELSE IF c.exp = ZeroTime THEN TRUE
    ELSE c.exp > n

\* a needsRefreshLocked that looks at the access token only
needsRefreshLocked_EmptyOnly(c, n) == c.at = NoTok

\* needsRefreshLocked(now)
needsRefreshLocked(c, n) ==
    IF c.at = NoTok THEN TRUE
    ELSE IF c.exp # ZeroTime THEN c.exp < n + RefreshInterval
    ELSE TRUE

\* "Bearer " + token
Bearer(tok) == <<"Bearer ", tok>>

\* ExtraHeaderProvider.ExtraHeaders(metadata): a function of the metadata alone
ExtraHeadersOf(meta) == <<"headers-of", meta>>

\* a Lock() that does not exclude another writer
CanLock_NoExclusion == TRUE

\* m.mu.Lock() can be taken; m.mu.RLock() can be taken
CanLock == mu = NoHolder
CanRLock == mu = NoHolder

\* The results Refresher.Refresh(refreshToken) can return at time n.
\* ok: the endpoint answers 200 with a usable token.
RefresherResults(rt, n, ok) ==
    LET good == {[err |-> NoErr, creds |-> Cred(NewTok, rt, e, MetaFresh)] :
                    e \in {n + l : l \in Lifetimes}}
        noexp == {[err |-> NoErr, creds |-> Cred(NewTok, rt, ZeroTime, MetaFresh)]}
        bad == {[err |-> ErrRefresher, creds |-> NoCreds],
                [err |-> NoErr, creds |-> Cred(NoTok, rt, ZeroTime, MetaFresh)]}
    IN  IF rt = NoTok THEN {[err |-> ErrRefresher, creds |-> NoCreds]}
        ELSE IF ok THEN good
        ELSE good \cup noexp \cup bad

\* refreshLocked with m.creds = newCreds placed before the empty-token check
refreshLockedResult_AssignFirst(c, out) ==
    IF out.err # NoErr THEN [creds |-> c, err |-> out.err, save |-> FALSE]
    ELSE IF out.creds.at = NoTok THEN [creds |-> out.creds, err |-> ErrEmptyAT, save |-> FALSE]
    ELSE [creds |-> out.creds, err |-> NoErr, save |-> TRUE]

\* refreshLocked with m.creds = newCreds placed after the Save
refreshLockedResult_SaveFirst(c, out) ==
    IF out.err # NoErr THEN [creds |-> c, err |-> out.err, save |-> FALSE]
    ELSE IF out.creds.at = NoTok THEN [creds |-> c, err |-> ErrEmptyAT, save |-> FALSE]
    ELSE [creds |-> c, err |-> NoErr, save |-> TRUE]

\* refreshLocked after the refresher returned `out`: the new m.creds, the error,
\* and whether Store.Save is attempted.
refreshLockedResult(c, out) ==
    IF out.err # NoErr THEN [creds |-> c, err |-> out.err, save |-> FALSE]
    ELSE IF out.creds.at = NoTok THEN [creds |-> c, err |-> ErrEmptyAT, save |-> FALSE]
    ELSE [creds |-> out.creds, err |-> NoErr, save |-> TRUE]

\* Start's return value given refreshIfNeeded's error (logged, not returned)
StartResult(err) == NoErr

\* a refreshLoop that returns when refreshIfNeeded fails
LoopAfterRefresh_StopOnError(err) == IF err # NoErr THEN "exited" ELSE "loop_top"

\* refreshLoop after refreshIfNeeded returned err (logged): back to the select
LoopAfterRefresh(err) == "loop_top"

\* where refreshIfNeeded returns to
After(t, err) == IF t \in Callers THEN "start_go" ELSE LoopAfterRefresh(err)

NoRes == [op |-> "none", ok |-> FALSE, val |-> <<>>]

\* ------------------------------------------------- strings as characters
\* A string whose characters the code inspects is the sequence of its
\* characters.

UpperLetters == <<"A","B","C","D","E","F","G","H","I","J","K","L","M",
                  "N","O","P","Q","R","S","T","U","V","W","X","Y","Z">>
LowerLetters == <<"a","b","c","d","e","f","g","h","i","j","k","l","m",
                  "n","o","p","q","r","s","t","u","v","w","x","y","z">>

\* unicode.ToLower on one character
ToLowerChar(c) ==
    IF \E i \in DOMAIN UpperLetters : UpperLetters[i] = c
    THEN LowerLetters[CHOOSE i \in DOMAIN UpperLetters : UpperLetters[i] = c]
    ELSE c

\* strings.EqualFold(a, b)
EqualFold(a, b) ==
    /\ Len(a) = Len(b)
    /\ \A i \in 1..Len(a) : ToLowerChar(a[i]) = ToLowerChar(b[i])

\* strings.HasPrefix(s, p)
HasPrefix(s, p) == Len(s) >= Len(p) /\ SubSeq(s, 1, Len(p)) = p

IsSpace(c) == c \in {" ", "\t"}

RECURSIVE TrimLeft(_)
TrimLeft(s) == IF s # <<>> /\ IsSpace(Head(s)) THEN TrimLeft(Tail(s)) ELSE s

RECURSIVE TrimRight(_)
TrimRight(s) ==
    IF s # <<>> /\ IsSpace(s[Len(s)]) THEN TrimRight(SubSeq(s, 1, Len(s) - 1)) ELSE s

\* strings.TrimSpace(s)
TrimSpace(s) == TrimRight(TrimLeft(s))

\* ----------------------------------------------------- the user table

EmptyStr == <<>>                \* the empty string ""

userToken == <<"k","1">>      \* the token of the configured user

\* cfg.Users: none, or one user
NoUsers == [t \in {} |-> "alice"]
OneUser == [t \in {userToken} |-> "alice"]
UserTables == {NoUsers, OneUser}

\* Authenticator.HasUsers, Authenticator.Authenticate
HasUsers(tbl) == DOMAIN tbl # {}
Authenticate(tbl, token) ==
    IF token \in DOMAIN tbl THEN [user |-> tbl[token], ok |-> TRUE]
    ELSE [user |-> "", ok |-> FALSE]

bearerPrefix == <<"b","e","a","r","e","r"," ">>

\* the values of the downstream Authorization header (r.Header.Get: EmptyStr
\* when there is none)
AuthHeaders ==
    { EmptyStr,
      <<"B","e","a","r","e","r"," ","k","1">>,
      <<"b","E","A","R","E","R"," "," ","k","1"," ">>,
      <<"B","e","a","r","e","r"," ","k","2">>,
      <<"B","e","a","r","e","r"," "," ">>,
      <<"B","e","a","r","e","r">>,
      <<"D","i","g","e","s","t"," ","k","1">> }

\* an authenticate that does not look at the scheme
authenticate_NoScheme(tbl, authHeader) ==
    IF ~HasUsers(tbl) THEN [user |-> "", ok |-> TRUE]
    ELSE IF authHeader = EmptyStr THEN [user |-> "", ok |-> TRUE]
    ELSE IF Len(authHeader) < Len(bearerPrefix) THEN [user |-> "", ok |-> FALSE]
    ELSE LET token == TrimSpace(SubSeq(authHeader, Len(bearerPrefix) + 1, Len(authHeader)))
         IN  IF token = EmptyStr THEN [user |-> "", ok |-> FALSE]
             ELSE Authenticate(tbl, token)

\* an authenticate that compares the scheme case-sensitively with "Bearer "
authenticate_CaseSensitive(tbl, authHeader) ==
    IF ~HasUsers(tbl) THEN [user |-> "", ok |-> TRUE]
    ELSE IF authHeader = EmptyStr THEN [user |-> "", ok |-> TRUE]
    ELSE IF ~HasPrefix(authHeader, <<"B","e","a","r","e","r"," ">>)
    THEN [user |-> "", ok |-> FALSE]
    ELSE LET token == TrimSpace(SubSeq(authHeader, Len(bearerPrefix) + 1, Len(authHeader)))
         IN  IF token = EmptyStr THEN [user |-> "", ok |-> FALSE]
             ELSE Authenticate(tbl, token)

\* Service.authenticate(r), authHeader being r.Header.Get("Authorization")
authenticate(tbl, authHeader) ==
    IF ~HasUsers(tbl) THEN [user |-> "", ok |-> TRUE]
    ELSE IF authHeader = EmptyStr THEN [user |-> "", ok |-> TRUE]
    ELSE IF Len(authHeader) < Len(bearerPrefix)
            \/ ~EqualFold(SubSeq(authHeader, 1, Len(bearerPrefix)), bearerPrefix)
    THEN [user |-> "", ok |-> FALSE]
    ELSE LET token == TrimSpace(SubSeq(authHeader, Len(bearerPrefix) + 1, Len(authHeader)))
         IN  IF token = EmptyStr THEN [user |-> "", ok |-> FALSE]
             ELSE Authenticate(tbl, token)

\* ------------------------------------------------------------ the registry

claudePrefix == <<"/","c","l","a","u","d","e">>
chatGPTPrefix == <<"/","c","h","a","t","g","p","t">>

\* newProviderRegistry for cfg.Providers = claude, chatgpt: the entries, the
\* longest prefix first
RegistryEntries ==
    << [prefix |-> chatGPTPrefix, provider |-> "chatgpt"],
       [prefix |-> claudePrefix, provider |-> "claude"] >>

\* a trimPrefix without the test of the character after the prefix
trimPrefix_NoSeparator(path, prefix) ==
    IF ~HasPrefix(path, prefix) THEN [trimmed |-> EmptyStr, ok |-> FALSE]
    ELSE LET trimmed == SubSeq(path, Len(prefix) + 1, Len(path))
         IN  IF trimmed = EmptyStr THEN [trimmed |-> <<"/">>, ok |-> TRUE]
             ELSE IF ~HasPrefix(trimmed, <<"/">>)
             THEN [trimmed |-> <<"/">> \o trimmed, ok |-> TRUE]
             ELSE [trimmed |-> trimmed, ok |-> TRUE]

\* trimPrefix(path, prefix)
trimPrefix(path, prefix) ==
    IF ~HasPrefix(path, prefix) THEN [trimmed |-> EmptyStr, ok |-> FALSE]
    ELSE IF Len(path) > Len(prefix) /\ path[Len(prefix) + 1] # "/"
    THEN [trimmed |-> EmptyStr, ok |-> FALSE]
    ELSE LET trimmed == SubSeq(path, Len(prefix) + 1, Len(path))
         IN  IF trimmed = EmptyStr THEN [trimmed |-> <<"/">>, ok |-> TRUE]
             ELSE IF ~HasPrefix(trimmed, <<"/">>)
             THEN [trimmed |-> <<"/">> \o trimmed, ok |-> TRUE]
             ELSE [trimmed |-> trimmed, ok |-> TRUE]

\* providerRegistry.Resolve(path) with r.entries = entries: the first entry
\* whose prefix matches
ResolveIn(entries, path) ==
    LET hits == {i \in DOMAIN entries : trimPrefix(path, entries[i].prefix).ok}
    IN  IF hits = {} THEN [provider |-> "-", trimmed |-> EmptyStr, ok |-> FALSE]
        ELSE LET i == CHOOSE i \in hits : \A j \in hits : i <= j
             IN  [provider |-> entries[i].provider,
                  trimmed |-> trimPrefix(path, entries[i].prefix).trimmed,
                  ok |-> TRUE]

\* providerRegistry.Resolve(path) of the service's registry
Resolve(path) == ResolveIn(RegistryEntries, path)

\* strings.TrimSuffix(s, "/")
TrimSuffixSlash(s) ==
    IF Len(s) > 0 /\ s[Len(s)] = "/" THEN SubSeq(s, 1, Len(s) - 1) ELSE s

\* a validateProviderPrefixes that rejects equal prefixes only
validateProviderPrefixes_EqualOnly(entries) ==
    \A i, j \in DOMAIN entries : i < j => entries[i].prefix # entries[j].prefix

\* validateProviderPrefixes(entries) returns nil
validateProviderPrefixes(entries) ==
    \A i, j \in DOMAIN entries :
        i < j => ~(HasPrefix(entries[i].prefix, entries[j].prefix)
                    \/ HasPrefix(entries[j].prefix, entries[i].prefix))

\* sort.SliceStable by len(prefix), longest first: e goes behind the entries
\* that are at least as long
RECURSIVE InsertByLength(_, _)
InsertByLength(sorted, e) ==
    IF sorted = <<>> THEN <<e>>
    ELSE IF Len(Head(sorted).prefix) >= Len(e.prefix)
    THEN <<Head(sorted)>> \o InsertByLength(Tail(sorted), e)
    ELSE <<e>> \o sorted

RECURSIVE SliceStable(_)
SliceStable(entries) ==
    IF entries = <<>> THEN <<>>
    ELSE InsertByLength(SliceStable(SubSeq(entries, 1, Len(entries) - 1)),
                        entries[Len(entries)])

\* newProviderRegistry(entries): the error, and the registry's entries
newProviderRegistry(entries) ==
    LET normalized == [i \in DOMAIN entries |->
                          [prefix |-> TrimSuffixSlash(entries[i].prefix),
                           provider |-> entries[i].provider]]
    IN  IF Len(entries) = 0
        THEN [err |-> "no providers configured", entries |-> <<>>]
        ELSE IF \E i \in DOMAIN normalized : normalized[i].prefix = EmptyStr
        THEN [err |-> "provider prefix cannot be empty", entries |-> <<>>]
        ELSE IF ~validateProviderPrefixes(normalized)
        THEN [err |-> "provider prefixes overlap", entries |-> <<>>]
        ELSE [err |-> NoErr, entries |-> SliceStable(normalized)]

\* the request paths
Paths ==
    { <<"/","c","l","a","u","d","e","/","v","1","/","m">>,
      <<"/","c","l","a","u","d","e">>,
      <<"/","c","l","a","u","d","e","x","/","v","1">>,
      <<"/","c","h","a","t","g","p","t","/","v","1","/","r">>,
      <<"/","v","1","/","m">> }

\* ------------------------------------------------------------- headers
\* An http.Header is a function from header names (in canonical form, as
\* net/http delivers and stores them) to the sequence of the header's values.
\* A header value is a string: a sequence of characters, or of longer pieces
\* where the code does not look inside them.

hAuthorization == <<"A","u","t","h","o","r","i","z","a","t","i","o","n">>
hConnection == <<"C","o","n","n","e","c","t","i","o","n">>
hProxyAuthorization == <<"P","r","o","x","y","-","A","u","t","h","o","r","i","z","a","t","i","o","n">>
hTrace == <<"X","-","T","r","a","c","e">>
hAnthropicBeta == <<"A","n","t","h","r","o","p","i","c","-","B","e","t","a">>
hAccountId == <<"C","h","a","t","g","p","t","-","A","c","c","o","u","n","t","-","I","d">>

NoHeaders == [k \in {} |-> <<>>]

\* http.Header.Get / Set / Add / Del
GetHeader(h, k) == IF k \in DOMAIN h /\ h[k] # <<>> THEN h[k][1] ELSE EmptyStr
SetHeader(h, k, v) == [x \in DOMAIN h \cup {k} |-> IF x = k THEN <<v>> ELSE h[x]]
AddHeader(h, k, v) ==
    [x \in DOMAIN h \cup {k} |->
        IF x = k THEN (IF k \in DOMAIN h THEN Append(h[k], v) ELSE <<v>>) ELSE h[x]]
DelHeader(h, k) == [x \in DOMAIN h \ {k} |-> h[x]]

\* strings.ToLower
ToLower(s) == [i \in 1..Len(s) |-> ToLowerChar(s[i])]

HopByHopNames ==
    { <<"c","o","n","n","e","c","t","i","o","n">>,
      <<"k","e","e","p","-","a","l","i","v","e">>,
      <<"t","e">>,
      <<"t","r","a","i","l","e","r","s">>,
      <<"t","r","a","n","s","f","e","r","-","e","n","c","o","d","i","n","g">>,
      <<"u","p","g","r","a","d","e">>,
      <<"h","o","s","t">> }

\* an isHopByHop that compares the name as it is spelled
isHopByHop_CaseSensitive(header) ==
    HasPrefix(header, <<"p","r","o","x","y","-">>) \/ header \in HopByHopNames

\* isHopByHop(header)
isHopByHop(header) ==
    LET h == ToLower(header)
    IN  HasPrefix(h, <<"p","r","o","x","y","-">>) \/ h \in HopByHopNames

\* copyHeaders(dst, src) into an empty dst
copyHeaders(src) ==
    [k \in {k \in DOMAIN src : ~isHopByHop(k) /\ ~EqualFold(k, hAuthorization)} |-> src[k]]

claudeBetaValue == "oauth-2025-04-20"

\* BuildUpstreamRequest up to the call of AuthorizationHeader: the copied
\* headers; Claude merges its beta value, ChatGPT deletes the header
CopiedHeaders(provider, down) ==
    LET h == copyHeaders(down) IN
    IF provider = "claude"
    THEN LET clientBeta == GetHeader(h, hAnthropicBeta)
         IN  IF clientBeta = EmptyStr
             THEN SetHeader(h, hAnthropicBeta, <<claudeBetaValue>>)
             ELSE SetHeader(h, hAnthropicBeta, <<claudeBetaValue, ",">> \o clientBeta)
    ELSE DelHeader(h, hAnthropicBeta)

\* a BuildUpstreamRequest that forwards the client's headers as they are and
\* sets the manager's Authorization only when the client sent none
WithAuthorization_PassThrough(provider, down, authHeader) ==
    LET h == [k \in {k \in DOMAIN down : ~isHopByHop(k)} |-> down[k]]
    IN  IF hAuthorization \in DOMAIN h THEN h
        ELSE SetHeader(h, hAuthorization, authHeader)

\* BuildUpstreamRequest: req.Header.Set("Authorization", authHeader)
WithAuthorization(provider, down, authHeader) ==
    SetHeader(CopiedHeaders(provider, down), hAuthorization, authHeader)

\* ChatGPTMetadata.AccountID of a record's metadata
AccountIDOf(meta) == IF meta = MetaLoaded THEN "acct-loaded" ELSE NoTok

\* ClaudeHeaderProvider.ExtraHeaders: none; ChatGPTHeaderProvider.ExtraHeaders:
\* ChatGPT-Account-Id when the metadata holds an account id
ProviderExtraHeaders(provider, meta) ==
    IF provider = "chatgpt" /\ AccountIDOf(meta) # NoTok
    THEN SetHeader(NoHeaders, hAccountId, <<AccountIDOf(meta)>>)
    ELSE NoHeaders

\* BuildUpstreamRequest: for key, values := range extra: req.Header.Add(key, v)
RECURSIVE AddAll(_, _, _)
AddAll(h, k, values) ==
    IF values = <<>> THEN h ELSE AddAll(AddHeader(h, k, Head(values)), k, Tail(values))

RECURSIVE WithExtra(_, _)
WithExtra(h, extra) ==
    IF DOMAIN extra = {} THEN h
    ELSE LET k == CHOOSE k \in DOMAIN extra : TRUE
         IN  WithExtra(AddAll(h, k, extra[k]), DelHeader(extra, k))

\* the headers a client sends besides Authorization
ClientHeaders ==
    { NoHeaders,
      SetHeader(SetHeader(SetHeader(NoHeaders, hConnection, <<"close">>),
                          hProxyAuthorization, <<"Basic proxy-secret">>),
                hTrace, <<"t1">>) }

\* r.Header of a request with Authorization value a (none when EmptyStr)
DownstreamHeaders(a, others) ==
    IF a = EmptyStr THEN others ELSE SetHeader(others, hAuthorization, a)

\* ----------------------------------------------------------- the pipeline

\* the stages of ServeHTTP in the order the code runs them
Stages == <<"start", "resolve", "available", "authenticate", "build", "extra", "execute">>

\* a ServeHTTP that authenticates before it checks availability
StageAfter_AuthenticateFirst(stage) ==
    CASE stage = "start" -> "resolve"
      [] stage = "resolve" -> "authenticate"
      [] stage = "authenticate" -> "available"
      [] stage = "available" -> "build"
      [] stage = "build" -> "extra"
      [] stage = "extra" -> "execute"
      [] OTHER -> "idle"

\* a ServeHTTP that calls the upstream before it authenticates
StageAfter_ExecuteFirst(stage) ==
    CASE stage = "start" -> "resolve"
      [] stage = "resolve" -> "available"
      [] stage = "available" -> "build"
      [] stage = "build" -> "extra"
      [] stage = "extra" -> "execute"
      [] stage = "execute" -> "authenticate"
      [] OTHER -> "idle"

\* the stage ServeHTTP goes to when `stage` has succeeded
StageAfter(stage) ==
    IF \E i \in 1..(Len(Stages) - 1) : Stages[i] = stage
    THEN Stages[(CHOOSE i \in 1..(Len(Stages) - 1) : Stages[i] = stage) + 1]
    ELSE "idle"

\* no request is being handled
NoReq == [stage |-> "idle", hdr |-> NoHeaders, provider |-> "-", user |-> "anonymous",
          up |-> NoHeaders, done |-> <<>>, called |-> FALSE]

\* no function is being called
NoCall == [fn |-> "-"]

\* ------------------------------------------------------------------ init

LoadedRecords ==
    {Cred(at, rt, exp, MetaLoaded) :
        at \in {NoTok, LoadedTok}, rt \in {NoTok, LoadedRT},
        exp \in {ZeroTime, StartTime + 1, StartTime + RefreshInterval}}

\* NewCredentialManager: the manager after construction from the loaded record c
ManagerInit(c) ==
    /\ now = StartTime
    /\ creds = c
    /\ file = creds
    /\ started = FALSE
    /\ stopCh = NilCh
    /\ closed = {}
    /\ made = 0
    /\ mu = NoHolder
    /\ pc = [t \in Threads |-> IF t \in Callers THEN "idle" ELSE "none"]
    /\ n0 = [t \in Threads |-> ZeroTime]
    /\ newc = [t \in Threads |-> NoCreds]
    /\ rerr = [t \in Threads |-> NoErr]
    /\ mych = [t \in Callers |-> NilCh]
    /\ sel = [t \in Loops |-> NilCh]
    /\ res = NoRes
    /\ ctxDone = FALSE
    /\ refresherOK = FALSE

\* one manager used through its own methods: no user table, no request
Init ==
    /\ \E c \in LoadedRecords : ManagerInit(c)
    /\ users = NoUsers
    /\ req = NoReq
    /\ call = NoCall

\* --------------------------------------------------------------- actions

Returns(op, ok, val) == [op |-> op, ok |-> ok, val |-> val]

\* A caller invokes Start or Shutdown and waits for m.mu.
CallStart(t) ==
    /\ pc[t] = "idle"
    /\ pc' = [pc EXCEPT ![t] = "start_lock"]
    /\ res' = NoRes
    /\ UNCHANGED <<now, creds, file, started, stopCh, closed, made, mu, n0, newc,
                   rerr, mych, sel, ctxDone, refresherOK, svars>>

CallShutdown(t) ==
    /\ pc[t] = "idle"
    /\ pc' = [pc EXCEPT ![t] = "sd_lock"]
    /\ res' = NoRes
    /\ UNCHANGED <<now, creds, file, started, stopCh, closed, made, mu, n0, newc,
                   rerr, mych, sel, ctxDone, refresherOK, svars>>

\* a Start without the `if m.started` early return: every call starts over
StartLocked_Restart(t) ==
    /\ pc[t] = "start_lock"
    /\ CanLock
    /\ made < MaxStarts
    /\ started' = TRUE
    /\ made' = made + 1
    /\ stopCh' = made + 1
    /\ mych' = [mych EXCEPT ![t] = made + 1]
    /\ pc' = [pc EXCEPT ![t] = "rin_enter"]
    /\ res' = NoRes
    /\ UNCHANGED <<now, creds, file, closed, mu, n0, newc, rerr, sel, ctxDone, refresherOK, svars>>

\* Start: m.mu.Lock(); if m.started { return nil }; m.started = true;
\* m.stopCh = make(chan struct{}); m.mu.Unlock()
StartLocked(t) ==
    /\ pc[t] = "start_lock"
    /\ CanLock
    /\ IF started
       THEN /\ pc' = [pc EXCEPT ![t] = "idle"]
            /\ res' = Returns("Start", TRUE, <<NoErr>>)
            /\ UNCHANGED <<started, stopCh, made, mych>>
       ELSE /\ made < MaxStarts
            /\ started' = TRUE
            /\ made' = made + 1
            /\ stopCh' = made + 1
            /\ mych' = [mych EXCEPT ![t] = made + 1]
            /\ pc' = [pc EXCEPT ![t] = "rin_enter"]
            /\ res' = NoRes
    /\ UNCHANGED <<now, creds, file, closed, mu, n0, newc, rerr, sel, ctxDone, refresherOK, svars>>

\* refreshIfNeeded: now := time.Now()
RinEnter(t) ==
    /\ pc[t] = "rin_enter"
    /\ n0' = [n0 EXCEPT ![t] = now]
    /\ rerr' = [rerr EXCEPT ![t] = NoErr]
    /\ pc' = [pc EXCEPT ![t] = "rin_rlock"]
    /\ res' = NoRes
    /\ UNCHANGED <<now, creds, file, started, stopCh, closed, made, mu, newc,
                   mych, sel, ctxDone, refresherOK, svars>>

\* refreshIfNeeded: RLock; needs := needsRefreshLocked(now); RUnlock; if !needs return nil
RinCheck(t) ==
    /\ pc[t] = "rin_rlock"
    /\ CanRLock
    /\ pc' = [pc EXCEPT ![t] = IF needsRefreshLocked(creds, n0[t])
                               THEN "rin_lock" ELSE After(t, NoErr)]
    /\ n0' = [n0 EXCEPT ![t] = ZeroTime]
    /\ res' = NoRes
    /\ UNCHANGED <<now, creds, file, started, stopCh, closed, made, mu, newc,
                   rerr, mych, sel, ctxDone, refresherOK, svars>>

\* refreshIfNeeded: Lock; re-check with time.Now(); refreshLocked up to the
\* start of the refresher's exchange (the write lock stays held across it)
RinLock(t) ==
    /\ pc[t] = "rin_lock"
    /\ CanLock
    /\ IF ~needsRefreshLocked(creds, now)
       THEN /\ pc' = [pc EXCEPT ![t] = After(t, NoErr)]
            /\ UNCHANGED <<mu, rerr>>
       ELSE IF creds.rt = NoTok
       THEN /\ pc' = [pc EXCEPT ![t] = After(t, ErrMissingRT)]
            /\ rerr' = [rerr EXCEPT ![t] = ErrMissingRT]
            /\ UNCHANGED mu
       ELSE /\ pc' = [pc EXCEPT ![t] = "refreshing"]
            /\ mu' = t
            /\ UNCHANGED rerr
    /\ res' = NoRes
    /\ UNCHANGED <<now, creds, file, started, stopCh, closed, made, n0, newc,
                   mych, sel, ctxDone, refresherOK, svars>>

\* the exchange of Start's refresh runs under Start's ctx; the loop's under
\* context.Background()
ExchangeCancelled(t) == t \in Callers /\ ctxDone

\* refreshLocked: m.refresher.Refresh returns `out`; on success m.creds = newCreds
RefreshReturns(t, out) ==
    /\ pc[t] = "refreshing"
    /\ out \in IF ExchangeCancelled(t)
               THEN {[err |-> ErrRefresher, creds |-> NoCreds]}
               ELSE RefresherResults(creds.rt, now, refresherOK)
    /\ LET r == refreshLockedResult(creds, out) IN
          /\ creds' = r.creds
          /\ rerr' = [rerr EXCEPT ![t] = r.err]
          /\ IF r.save
             THEN /\ newc' = [newc EXCEPT ![t] = out.creds]
                  /\ pc' = [pc EXCEPT ![t] = "saving"]
                  /\ UNCHANGED mu
             ELSE /\ pc' = [pc EXCEPT ![t] = After(t, r.err)]
                  /\ mu' = NoHolder
                  /\ UNCHANGED newc
    /\ res' = NoRes
    /\ UNCHANGED <<now, file, started, stopCh, closed, made, n0, mych, sel,
                   ctxDone, refresherOK, svars>>

AllResults ==
    UNION {RefresherResults(rt, n, ok) :
             rt \in {NoTok, LoadedRT}, n \in StartTime..MaxTime, ok \in BOOLEAN}

RefreshReturn(t) == \E out \in AllResults : RefreshReturns(t, out)

\* refreshLocked: m.store.Save(ctx, newCreds), failure only logged; return nil
\* (the deferred Unlock runs)
SaveStep(t) ==
    /\ pc[t] = "saving"
    /\ \E ok \in BOOLEAN : file' = IF ok THEN newc[t] ELSE file
    /\ newc' = [newc EXCEPT ![t] = NoCreds]
    /\ mu' = NoHolder
    /\ pc' = [pc EXCEPT ![t] = After(t, NoErr)]
    /\ res' = NoRes
    /\ UNCHANGED <<now, creds, started, stopCh, closed, made, n0, rerr, mych, sel,
                   ctxDone, refresherOK, svars>>

\* Start: go m.refreshLoop(ctx, interval); return nil
StartGo(t) ==
    /\ pc[t] = "start_go"
    /\ pc' = [pc EXCEPT ![t] = "idle", ![LoopOf(mych[t])] = "loop_top"]
    /\ res' = Returns("Start", StartResult(rerr[t]) = NoErr, <<StartResult(rerr[t])>>)
    /\ rerr' = [rerr EXCEPT ![t] = NoErr]
    /\ mych' = [mych EXCEPT ![t] = NilCh]
    /\ UNCHANGED <<now, creds, file, started, stopCh, closed, made, mu, n0, newc,
                   sel, ctxDone, refresherOK, svars>>

\* Shutdown: Lock; if !m.started { return nil }; stop := m.stopCh;
\* m.stopCh = nil; m.started = false; Unlock
ShutdownLocked(t) ==
    /\ pc[t] = "sd_lock"
    /\ CanLock
    /\ IF ~started
       THEN /\ pc' = [pc EXCEPT ![t] = "idle"]
            /\ res' = Returns("Shutdown", TRUE, <<NoErr>>)
            /\ UNCHANGED <<started, stopCh, mych>>
       ELSE /\ mych' = [mych EXCEPT ![t] = stopCh]
            /\ stopCh' = NilCh
            /\ started' = FALSE
            /\ pc' = [pc EXCEPT ![t] = "sd_close"]
            /\ res' = NoRes
    /\ UNCHANGED <<now, creds, file, closed, made, mu, n0, newc, rerr, sel,
                   ctxDone, refresherOK, svars>>

\* Shutdown: close(stop); return nil
ShutdownClose(t) ==
    /\ pc[t] = "sd_close"
    /\ closed' = closed \cup {mych[t]}
    /\ mych' = [mych EXCEPT ![t] = NilCh]
    /\ pc' = [pc EXCEPT ![t] = "idle"]
    /\ res' = Returns("Shutdown", TRUE, <<NoErr>>)
    /\ UNCHANGED <<now, creds, file, started, stopCh, made, mu, n0, newc, rerr,
                   sel, ctxDone, refresherOK, svars>>

\* an AuthorizationHeader that refreshes on demand when the token is not valid
AuthorizationHeader_RefreshOnDemand ==
    /\ CanRLock
    /\ LET valid == tokenValidLocked(creds, now)
       IN  /\ res' = IF ~valid
                     THEN Returns("AuthorizationHeader", FALSE, <<ErrUnavailable>>)
                     ELSE Returns("AuthorizationHeader", TRUE, Bearer(creds.at))
           /\ creds' = IF valid \/ creds.rt = NoTok THEN creds
                       ELSE Cred(NewTok, creds.rt, ZeroTime, MetaFresh)
    /\ UNCHANGED <<now, file, started, stopCh, closed, made, mu, pc, n0,
                   newc, rerr, mych, sel, ctxDone, refresherOK, svars>>

\* AuthorizationHeader: RLock; valid := tokenValidLocked(time.Now());
\* token = m.creds.AccessToken; RUnlock; "Bearer " + token or the error
AuthorizationHeader ==
    /\ CanRLock
    /\ LET valid == tokenValidLocked(creds, now)
           token == IF valid THEN creds.at ELSE NoTok
       IN  res' = IF ~valid
                  THEN Returns("AuthorizationHeader", FALSE, <<ErrUnavailable>>)
                  ELSE Returns("AuthorizationHeader", TRUE, Bearer(token))
    /\ UNCHANGED <<now, creds, file, started, stopCh, closed, made, mu, pc, n0,
                   newc, rerr, mych, sel, ctxDone, refresherOK, svars>>

\* IsAvailable: RLock; return tokenValidLocked(time.Now())
IsAvailable ==
    /\ CanRLock
    /\ res' = Returns("IsAvailable", tokenValidLocked(creds, now), <<>>)
    /\ UNCHANGED <<now, creds, file, started, stopCh, closed, made, mu, pc, n0,
                   newc, rerr, mych, sel, ctxDone, refresherOK, svars>>

\* ExtraHeaders: RLock; metadata = m.creds.Metadata; RUnlock;
\* return m.headerProvider.ExtraHeaders(metadata)
ExtraHeaders ==
    /\ CanRLock
    /\ res' = Returns("ExtraHeaders", TRUE, ExtraHeadersOf(creds.meta))
    /\ UNCHANGED <<now, creds, file, started, stopCh, closed, made, mu, pc, n0,
                   newc, rerr, mych, sel, ctxDone, refresherOK, svars>>

\* refreshLoop: entry to the select.  `case <-m.stopCh` evaluates m.stopCh
\* without holding m.mu: the read races with the writes of Start and Shutdown
\* and yields the value the field holds when the loop gets there, which is
\* the old or the new one depending on the interleaving.
LoopSelect(l) ==
    /\ pc[l] = "loop_top"
    /\ sel' = [sel EXCEPT ![l] = stopCh]
    /\ rerr' = [rerr EXCEPT ![l] = NoErr]
    /\ pc' = [pc EXCEPT ![l] = "select"]
    /\ res' = NoRes
    /\ UNCHANGED <<now, creds, file, started, stopCh, closed, made, mu, n0, newc,
                   mych, ctxDone, refresherOK, svars>>

\* refreshLoop: case <-ticker.C: refreshIfNeeded(context.Background(), "ticker")
LoopTick(l) ==
    /\ pc[l] = "select"
    /\ pc' = [pc EXCEPT ![l] = "rin_enter"]
    /\ sel' = [sel EXCEPT ![l] = NilCh]
    /\ res' = NoRes
    /\ UNCHANGED <<now, creds, file, started, stopCh, closed, made, mu, n0, newc,
                   rerr, mych, ctxDone, refresherOK, svars>>

\* refreshLoop: case <-m.stopCh (a nil channel is never ready): return
LoopStop(l) ==
    /\ pc[l] = "select"
    /\ sel[l] # NilCh
    /\ sel[l] \in closed
    /\ pc' = [pc EXCEPT ![l] = "exited"]
    /\ sel' = [sel EXCEPT ![l] = NilCh]
    /\ res' = NoRes
    /\ UNCHANGED <<now, creds, file, started, stopCh, closed, made, mu, n0, newc,
                   rerr, mych, ctxDone, refresherOK, svars>>

\* a select without the `case <-ctx.Done()`
LoopCancelled_NoCase(l) == FALSE

\* refreshLoop: case <-ctx.Done(): return
LoopCancelled(l) ==
    /\ pc[l] = "select"
    /\ ctxDone
    /\ pc' = [pc EXCEPT ![l] = "exited"]
    /\ sel' = [sel EXCEPT ![l] = NilCh]
    /\ res' = NoRes
    /\ UNCHANGED <<now, creds, file, started, stopCh, closed, made, mu, n0, newc,
                   rerr, mych, ctxDone, refresherOK, svars>>

\* the context given to Start is cancelled
CancelCtx ==
    /\ ~ctxDone
    /\ made > 0
    /\ ctxDone' = TRUE
    /\ res' = NoRes
    /\ UNCHANGED <<now, creds, file, started, stopCh, closed, made, mu, pc, n0,
                   newc, rerr, mych, sel, refresherOK, svars>>

\* time passes
Tick ==
    /\ now < MaxTime
    /\ now' = now + 1
    /\ res' = NoRes
    /\ UNCHANGED <<creds, file, started, stopCh, closed, made, mu, pc, n0, newc,
                   rerr, mych, sel, ctxDone, refresherOK, svars>>

\* Start, Shutdown, the refresh loops, the context and the clock
Lifecycle ==
    \/ \E t \in Callers : CallStart(t)
    \/ \E t \in Callers : CallShutdown(t)
    \/ \E t \in Callers : StartLocked(t)
    \/ \E t \in Callers : StartGo(t)
    \/ \E t \in Callers : ShutdownLocked(t)
    \/ \E t \in Callers : ShutdownClose(t)
    \/ \E t \in Threads : RinEnter(t)
    \/ \E t \in Threads : RinCheck(t)
    \/ \E t \in Threads : RinLock(t)
    \/ \E t \in Threads : RefreshReturn(t)
    \/ \E t \in Threads : SaveStep(t)
    \/ \E l \in Loops : LoopSelect(l)
    \/ \E l \in Loops : LoopTick(l)
    \/ \E l \in Loops : LoopStop(l)
    \/ \E l \in Loops : LoopCancelled(l)
    \/ CancelCtx
    \/ Tick

Next ==
    \/ Lifecycle
    \/ AuthorizationHeader
    \/ IsAvailable
    \/ ExtraHeaders

Spec == Init /\ [][Next]_vars

\* the token endpoint recovers: from now on every exchange succeeds
RefresherRecovers ==
    /\ ~refresherOK
    /\ refresherOK' = TRUE
    /\ res' = NoRes
    /\ UNCHANGED <<now, creds, file, started, stopCh, closed, made, mu, pc, n0,
                   newc, rerr, mych, sel, ctxDone, svars>>

\* the records that can be refreshed at all: a refresh token is present
LiveInit == Init /\ creds.rt # NoTok

LiveNext == Lifecycle \/ RefresherRecovers

\* the steps a goroutine takes on its own once a call or the loop is under
\* way: the Go scheduler runs every runnable goroutine, a lock that stays
\* free is acquired, an exchange or a Save returns, and the ticker of a loop
\* waiting in its select fires.
Step(t) ==
    \/ RinEnter(t) \/ RinCheck(t) \/ RinLock(t) \/ RefreshReturn(t) \/ SaveStep(t)
    \/ (t \in Callers /\ (StartLocked(t) \/ StartGo(t) \/ ShutdownLocked(t) \/ ShutdownClose(t)))
    \/ (t \in Loops /\ (LoopSelect(t) \/ LoopTick(t)))

LiveSpec == LiveInit /\ [][LiveNext]_vars /\ \A t \in Threads : WF_vars(Step(t))

\* a select whose ctx.Done() case stays ready is not passed over for ever:
\* Go's select picks among its ready cases at random
CancelSpec ==
    /\ LiveInit
    /\ [][Lifecycle]_vars
    /\ \A t \in Threads : WF_vars(Step(t))
    /\ \A l \in Loops : SF_vars(LoopCancelled(l))

\* ------------------------------------------------------------- ServeHTTP
\* One request at a time goes through Service.ServeHTTP; `req` is nil between
\* requests.  The provider the path resolves to reads the manager modelled
\* above.  main starts the service (Service.Start, through s.startOnce, calls
\* the manager's Start once) and never shuts it down while it serves.

StatusOK == 200
StatusBadRequest == 400
StatusUnauthorized == 401
StatusNotFound == 404
StatusBadGateway == 502
StatusServiceUnavailable == 503

\* what the client receives: the status, and for the record the stages the
\* request went through, whether the upstream was called, the upstream
\* request's headers, the user label and the request's headers
Response(status, r) ==
    Returns("ServeHTTP", status = StatusOK,
            <<status, r.done, r.called, r.up, r.user, r.hdr>>)

\* s.startOnce has run: the manager's first Start has returned
OnceDone == pc[LoopOf(1)] # "none"

\* the end of a stage: the error response, the relayed response after the
\* last stage, or the next stage
Continue(r, stage, ok, failStatus) ==
    IF ~ok
    THEN /\ res' = Response(failStatus, r)
         /\ req' = NoReq
    ELSE IF StageAfter(stage) = "idle"
    THEN /\ res' = Response(StatusOK, r)
         /\ req' = NoReq
    ELSE /\ req' = [r EXCEPT !.stage = StageAfter(stage)]
         /\ res' = NoRes

ManagerUnchanged ==
    UNCHANGED <<now, creds, file, started, stopCh, closed, made, mu, pc, n0, newc,
                rerr, mych, sel, ctxDone, refresherOK, users, call>>

\* a request arrives
Receive ==
    /\ req.stage = "idle"
    /\ \E a \in AuthHeaders, others \in ClientHeaders :
          req' = [NoReq EXCEPT !.stage = "start", !.hdr = DownstreamHeaders(a, others)]
    /\ res' = NoRes
    /\ ManagerUnchanged

\* ServeHTTP: s.Start(context.Background()) returns once startOnce has run;
\* the manager's Start returns nil
ServiceStart ==
    /\ req.stage = "start"
    /\ OnceDone
    /\ Continue([req EXCEPT !.done = Append(@, "start")], "start",
                StartResult(NoErr) = NoErr, StatusServiceUnavailable)
    /\ ManagerUnchanged

\* ServeHTTP: s.registry.Resolve(r.URL.Path), 404 when no prefix matches
ResolveStage ==
    /\ req.stage = "resolve"
    /\ \E path \in Paths :
          LET hit == Resolve(path)
          IN  Continue([req EXCEPT !.done = Append(@, "resolve"), !.provider = hit.provider],
                       "resolve", hit.ok, StatusNotFound)
    /\ ManagerUnchanged

\* ServeHTTP: provider.IsAvailable(), 503 when not
AvailableStage ==
    /\ req.stage = "available"
    /\ CanRLock
    /\ Continue([req EXCEPT !.done = Append(@, "available")], "available",
                tokenValidLocked(creds, now), StatusServiceUnavailable)
    /\ ManagerUnchanged

\* ServeHTTP: s.authenticate(r), 401 when rejected
AuthenticateStage ==
    /\ req.stage = "authenticate"
    /\ LET a == authenticate(users, GetHeader(req.hdr, hAuthorization))
       IN  Continue([req EXCEPT !.done = Append(@, "authenticate"),
                                !.user = IF a.user # "" THEN a.user ELSE "anonymous"],
                    "authenticate", a.ok, StatusUnauthorized)
    /\ ManagerUnchanged

\* ServeHTTP: provider.BuildUpstreamRequest, up to and including
\* p.creds.AuthorizationHeader(ctx) and the Set of its result; 400 on error
BuildStage ==
    /\ req.stage = "build"
    /\ CanRLock
    /\ LET valid == tokenValidLocked(creds, now)
           up == IF valid
                 THEN WithAuthorization(req.provider, req.hdr, Bearer(creds.at))
                 ELSE NoHeaders
       IN  Continue([req EXCEPT !.done = Append(@, "build"), !.up = up],
                    "build", valid, StatusBadRequest)
    /\ ManagerUnchanged

\* BuildUpstreamRequest: p.creds.ExtraHeaders(ctx) and the Add of each value
ExtraStage ==
    /\ req.stage = "extra"
    /\ CanRLock
    /\ Continue([req EXCEPT !.done = Append(@, "extra"),
                            !.up = WithExtra(@, ProviderExtraHeaders(req.provider, creds.meta))],
                "extra", TRUE, StatusBadRequest)
    /\ ManagerUnchanged

\* ServeHTTP: s.client.Do(upstreamReq), 502 on a transport error, otherwise
\* the upstream response is relayed
ExecuteStage ==
    /\ req.stage = "execute"
    /\ \E ok \in BOOLEAN :
          Continue([req EXCEPT !.done = Append(@, "execute"), !.called = TRUE],
                   "execute", ok, StatusBadGateway)
    /\ ManagerUnchanged

\* the records the service is started with
ServeInit ==
    /\ \E c \in LoadedRecords : ManagerInit(c)
    /\ users \in UserTables
    /\ req = NoReq
    /\ call = NoCall

\* main's Service.Start, the refresh loop, the clock and the requests
ServeNext ==
    \/ \E t \in Callers : CallStart(t)
    \/ \E t \in Callers : StartLocked(t)
    \/ \E t \in Callers : StartGo(t)
    \/ \E t \in Threads : RinEnter(t)
    \/ \E t \in Threads : RinCheck(t)
    \/ \E t \in Threads : RinLock(t)
    \/ \E t \in Threads : RefreshReturn(t)
    \/ \E t \in Threads : SaveStep(t)
    \/ \E l \in Loops : LoopSelect(l)
    \/ \E l \in Loops : LoopTick(l)
    \/ Tick
    \/ Receive
    \/ ServiceStart
    \/ ResolveStage
    \/ AvailableStage
    \/ AuthenticateStage
    \/ BuildStage
    \/ ExtraStage
    \/ ExecuteStage

ServeSpec == ServeInit /\ [][ServeNext]_vars

\* ------------------------------------- headers in both directions, per call
\* BuildUpstreamRequest and the relay of the upstream response's headers are
\* functions of the headers they are given: one call of either, its input
\* drawn when the call is made.

hKeepAlive == <<"K","e","e","p","-","A","l","i","v","e">>
hTe == <<"T","e">>
hTrailers == <<"T","r","a","i","l","e","r","s">>
hTransferEncoding == <<"T","r","a","n","s","f","e","r","-","E","n","c","o","d","i","n","g">>
hUpgrade == <<"U","p","g","r","a","d","e">>
hHost == <<"H","o","s","t">>
hProxyConnection == <<"P","r","o","x","y","-","C","o","n","n","e","c","t","i","o","n">>
hContentType == <<"C","o","n","t","e","n","t","-","T","y","p","e">>
hSetCookie == <<"S","e","t","-","C","o","o","k","i","e">>

\* one hop-by-hop header, as net/http spells it and as a handler called with a
\* hand-made header map may spell it; or none
HopHeaders ==
    { NoHeaders } \cup
    { SetHeader(NoHeaders, k, <<"hop">>) :
        k \in { hConnection, hKeepAlive, hTe, hTrailers, hTransferEncoding, hUpgrade,
                hHost, hProxyAuthorization, hProxyConnection,
                ToLower(hConnection), <<"P","R","O","X","Y","-","X">> } }

\* h with the header k holding `values`, unless `values` is empty
WithValues(h, k, values) ==
    IF values = <<>> THEN h ELSE [x \in DOMAIN h \cup {k} |-> IF x = k THEN values ELSE h[x]]

\* r.Header of the requests: at most one hop-by-hop header, X-Trace with two
\* values, Anthropic-Beta with one or two, ChatGPT-Account-Id, Authorization
RequestHeaders ==
    { WithValues(WithValues(WithValues(WithValues(hop,
          hTrace, trace), hAnthropicBeta, beta), hAccountId, acct), hAuthorization, auth) :
        hop \in HopHeaders,
        trace \in { <<>>, << <<"t1">>, <<"t2">> >> },
        beta \in { <<>>, << <<"b1">> >>, << <<"b1">>, <<"b2">> >> },
        acct \in { <<>>, << <<"acct-client">> >> },
        auth \in { <<>>, << <<"Bearer ", "k1">> >> } }

\* resp.Header of the upstream responses
ResponseHeaders ==
    { WithValues(WithValues(WithValues(hop,
          hContentType, ct), hSetCookie, cookies), hTrace, trace) :
        hop \in HopHeaders,
        ct \in { <<>>, << <<"application/json">> >> },
        cookies \in { <<>>, << <<"a=1">>, <<"b=2">> >> },
        trace \in { <<>>, << <<"t1">> >> } }

\* the header of the request a successful BuildUpstreamRequest returns
UpstreamHeaders(provider, down, authHeader, meta) ==
    WithExtra(WithAuthorization(provider, down, authHeader),
              ProviderExtraHeaders(provider, meta))

\* ServeHTTP: for key, values := range resp.Header, into the empty lrw.Header()
RelayedHeaders(respHeader) ==
    [k \in {k \in DOMAIN respHeader : ~isHopByHop(k)} |-> respHeader[k]]

HeaderCalls ==
    { [fn |-> "BuildUpstreamRequest", provider |-> p, hdr |-> h, meta |-> m,
       returned |-> FALSE, out |-> NoHeaders] :
        p \in {"claude", "chatgpt"}, h \in RequestHeaders, m \in {MetaLoaded, MetaFresh} }
    \cup
    { [fn |-> "relay", hdr |-> h, returned |-> FALSE, out |-> NoHeaders] :
        h \in ResponseHeaders }

HeaderInit ==
    /\ ManagerInit(Cred(LoadedTok, LoadedRT, ZeroTime, MetaLoaded))
    /\ users = NoUsers
    /\ req = NoReq
    /\ call \in HeaderCalls

\* everything but `call`
OnlyCall ==
    UNCHANGED <<now, creds, file, started, stopCh, closed, made, mu, pc, n0, newc,
                rerr, mych, sel, res, ctxDone, refresherOK, users, req>>

\* provider.BuildUpstreamRequest with a manager holding a valid token
BuildUpstreamRequest ==
    /\ call.fn = "BuildUpstreamRequest"
    /\ ~call.returned
    /\ call' = [call EXCEPT !.returned = TRUE,
                            !.out = UpstreamHeaders(call.provider, call.hdr,
                                                    Bearer(creds.at), call.meta)]
    /\ OnlyCall

\* ServeHTTP after s.client.Do: the headers written to the client
RelayResponse ==
    /\ call.fn = "relay"
    /\ ~call.returned
    /\ call' = [call EXCEPT !.returned = TRUE, !.out = RelayedHeaders(call.hdr)]
    /\ OnlyCall

HeaderNext == BuildUpstreamRequest \/ RelayResponse

HeaderSpec == HeaderInit /\ [][HeaderNext]_vars

\* ------------------------------------------------------------ the stores
\* A credential file is missing, or has permission bits and a content: bytes
\* that are JSON or not, and when they are, the fields of the provider's
\* schema.  A time is a number of clock ticks; the file formats count
\* milliseconds (Claude's expiresAt) or keep the time as it is (ChatGPT's
\* last_refresh, RFC 3339 with nanoseconds).

TicksPerMilli == 2                \* clock ticks in one millisecond
TicksPerSecond == 1000 * TicksPerMilli
chatGPTDefaultTokenExpiry == 8 * 24 * 3600 * TicksPerSecond    \* 8 days
defaultFilePerm == 384            \* 0o600

\* time.Time.UnixMilli and time.UnixMilli, for times after the epoch
UnixMilli(t) == t \div TicksPerMilli
FromUnixMilli(ms) == ms * TicksPerMilli

\* info.Mode().Perm()&0o077 != 0
GroupOrOtherBits(perm) == perm % 64 # 0

NoFile == [exists |-> FALSE]

NilMetadata == [type |-> "nil"]
ClaudeMetadata(scopes, subscriptionType, isMax, rateLimitTier) ==
    [type |-> "claude", scopes |-> scopes, subscriptionType |-> subscriptionType,
     isMax |-> isMax, rateLimitTier |-> rateLimitTier]
ChatGPTMetadata(idToken, accountID, apiKey) ==
    [type |-> "chatgpt", idToken |-> idToken, accountID |-> accountID, apiKey |-> apiKey]

LoadError(msg) == [err |-> msg, creds |-> NoCreds]
Loaded(c) == [err |-> NoErr, creds |-> c]

\* a ClaudeStore.Load that reads expiresAt as seconds
ClaudeStoreLoad_Seconds(disk) ==
    IF ~disk.exists THEN LoadError("read credentials")
    ELSE IF GroupOrOtherBits(disk.perm) THEN LoadError("must have 0600 permissions")
    ELSE IF ~disk.json THEN LoadError("parse credentials")
    ELSE IF ~disk.body.wrapper THEN LoadError("claudeAiOauth field not found in credentials")
    ELSE LET po == disk.body
         IN  Loaded(Cred(po.accessToken, po.refreshToken,
                         IF po.expiresAt > 0 THEN FromUnixMilli(po.expiresAt * 1000)
                         ELSE ZeroTime,
                         ClaudeMetadata(po.scopes, po.subscriptionType, po.isMax,
                                        po.rateLimitTier)))

\* ClaudeStore.Load with readFile
ClaudeStoreLoad(disk) ==
    IF ~disk.exists THEN LoadError("read credentials")
    ELSE IF GroupOrOtherBits(disk.perm) THEN LoadError("must have 0600 permissions")
    ELSE IF ~disk.json THEN LoadError("parse credentials")
    ELSE IF ~disk.body.wrapper THEN LoadError("claudeAiOauth field not found in credentials")
    ELSE LET po == disk.body
         IN  Loaded(Cred(po.accessToken, po.refreshToken,
                         IF po.expiresAt > 0 THEN FromUnixMilli(po.expiresAt) ELSE ZeroTime,
                         ClaudeMetadata(po.scopes, po.subscriptionType, po.isMax,
                                        po.rateLimitTier)))

\* os.WriteFile(path, data, defaultFilePerm): the mode is used when the file
\* is created
WriteFile(disk, body) ==
    [exists |-> TRUE, perm |-> IF disk.exists THEN disk.perm ELSE defaultFilePerm,
     json |-> TRUE, body |-> body]

\* ClaudeStore.Save with writeFile, returning nil
ClaudeStoreSave(disk, c) ==
    LET meta == IF c.meta.type = "claude" THEN c.meta
                ELSE ClaudeMetadata(<<>>, "", FALSE, "")
    IN  WriteFile(disk,
            [wrapper |-> TRUE, accessToken |-> c.at, refreshToken |-> c.rt,
             expiresAt |-> IF c.exp # ZeroTime THEN UnixMilli(c.exp) ELSE 0,
             scopes |-> meta.scopes, subscriptionType |-> meta.subscriptionType,
             isMax |-> meta.isMax, rateLimitTier |-> meta.rateLimitTier])

\* ChatGPTStore.Load with readFile; a missing file is an empty record
ChatGPTStoreLoad(disk) ==
    IF ~disk.exists THEN Loaded(Cred(NoTok, NoTok, ZeroTime, NilMetadata))
    ELSE IF GroupOrOtherBits(disk.perm) THEN LoadError("must have 0600 permissions")
    ELSE IF ~disk.json THEN LoadError("parse chatgpt credentials")
    ELSE IF disk.body.refreshToken = NoTok
    THEN LoadError("chatgpt credential file missing tokens.refresh_token")
    ELSE LET po == disk.body
         IN  Loaded(Cred(po.accessToken, po.refreshToken,
                         IF po.lastRefresh # ZeroTime
                         THEN po.lastRefresh + chatGPTDefaultTokenExpiry ELSE ZeroTime,
                         ChatGPTMetadata(po.idToken, po.accountID, po.apiKey)))

\* ChatGPTStore.Save with writeFile at time n, returning nil
ChatGPTStoreSave(disk, c, n) ==
    LET meta == IF c.meta.type = "chatgpt" THEN c.meta ELSE ChatGPTMetadata("", "", "")
    IN  WriteFile(disk,
            [apiKey |-> meta.apiKey, accessToken |-> c.at, idToken |-> meta.idToken,
             refreshToken |-> c.rt, accountID |-> meta.accountID, lastRefresh |-> n])

StoreLoad(store, disk) ==
    IF store = "claude" THEN ClaudeStoreLoad(disk) ELSE ChatGPTStoreLoad(disk)

StoreSave(store, disk, c, n) ==
    IF store = "claude" THEN ClaudeStoreSave(disk, c) ELSE ChatGPTStoreSave(disk, c, n)

\* the metadata values
ClaudeMetadatas ==
    { ClaudeMetadata(<<>>, "", FALSE, ""),
      ClaudeMetadata(<<"scope1", "scope2">>, "pro", TRUE, "default") }
ChatGPTMetadatas ==
    { ChatGPTMetadata("", "", ""),
      ChatGPTMetadata("id-token", "acct-1", "sk-key") }

\* the permission bits of a file: 0600, 0640, 0644
Perms == {defaultFilePerm, 416, 420}

\* the content of a file
Bodies(store) ==
    IF store = "claude"
    THEN { [wrapper |-> w, accessToken |-> at, refreshToken |-> rt, expiresAt |-> ms,
            scopes |-> m.scopes, subscriptionType |-> m.subscriptionType,
            isMax |-> m.isMax, rateLimitTier |-> m.rateLimitTier] :
             w \in BOOLEAN, at \in {NoTok, LoadedTok}, rt \in {NoTok, LoadedRT},
             ms \in {0, 2}, m \in ClaudeMetadatas }
    ELSE { [apiKey |-> m.apiKey, accessToken |-> at, idToken |-> m.idToken,
            refreshToken |-> rt, accountID |-> m.accountID, lastRefresh |-> lr] :
             at \in {NoTok, LoadedTok}, rt \in {NoTok, LoadedRT},
             lr \in {ZeroTime, StartTime}, m \in ChatGPTMetadatas }

\* the files a store may find
Disks(store) ==
    { NoFile } \cup
    { [exists |-> TRUE, perm |-> p, json |-> j, body |-> b] :
        p \in Perms, j \in BOOLEAN, b \in Bodies(store) }

\* the file of a store in use: none yet, or one its Load has accepted
DisksInUse(store) ==
    { NoFile } \cup { d \in Disks(store) : d.exists /\ StoreLoad(store, d).err = NoErr }

\* the records given to Save
SavedRecords ==
    { Cred(at, LoadedRT, exp, m) :
        at \in {NoTok, NewTok},
        exp \in {ZeroTime, 3, 4, StartTime + chatGPTDefaultTokenExpiry},
        m \in ClaudeMetadatas \cup ChatGPTMetadatas }

StoreCallsOf(s) ==
    { [fn |-> "Load", store |-> s, disk |-> d, returned |-> FALSE, out |-> LoadError("-")] :
        d \in Disks(s) }
    \cup
    { [fn |-> "SaveLoad", store |-> s, disk |-> d, x |-> x, savedAt |-> ZeroTime,
       saved |-> FALSE, returned |-> FALSE, out |-> LoadError("-")] :
        d \in DisksInUse(s), x \in SavedRecords }

StoreCalls == StoreCallsOf("claude") \cup StoreCallsOf("chatgpt")

StoreInit ==
    /\ ManagerInit(Cred(LoadedTok, LoadedRT, ZeroTime, MetaLoaded))
    /\ users = NoUsers
    /\ req = NoReq
    /\ call \in StoreCalls

\* store.Load(ctx) on the file as found
LoadCall ==
    /\ call.fn = "Load"
    /\ ~call.returned
    /\ call' = [call EXCEPT !.returned = TRUE, !.out = StoreLoad(call.store, call.disk)]
    /\ OnlyCall

\* store.Save(ctx, x)
SaveCall ==
    /\ call.fn = "SaveLoad"
    /\ ~call.saved
    /\ call' = [call EXCEPT !.saved = TRUE, !.savedAt = now,
                            !.disk = StoreSave(call.store, call.disk, call.x, now)]
    /\ OnlyCall

\* store.Load(ctx) after the Save, at once or later (after a restart)
LoadAfterSave ==
    /\ call.fn = "SaveLoad"
    /\ call.saved
    /\ ~call.returned
    /\ call' = [call EXCEPT !.returned = TRUE, !.out = StoreLoad(call.store, call.disk)]
    /\ OnlyCall

StoreNext == LoadCall \/ SaveCall \/ LoadAfterSave \/ Tick

StoreSpec == StoreInit /\ [][StoreNext]_vars

\* --------------------------------------------------------- the refreshers
\* The token endpoint's answer to one exchange: the HTTP status and the
\* fields of the JSON body (a number is 0 and a string empty when absent).

TokenResponses ==
    { [status |-> st, accessToken |-> at, refreshToken |-> rt,
       expiresIn |-> ein, expiresAt |-> eat, idToken |-> "id-token", accountID |-> acct] :
        st \in {StatusOK, StatusUnauthorized}, at \in {NoTok, NewTok},
        rt \in {NoTok, "rt-new"}, ein \in {0, 3600}, eat \in {0, 5},
        acct \in {"", "acct-1"} }

\* a Refresh whose expiry switch has the expires_in case first
ExpiresAtOf_ExpiresInFirst(provider, resp, n) ==
    IF resp.expiresIn > 0 THEN n + resp.expiresIn * TicksPerSecond
    ELSE IF resp.expiresAt > 0
    THEN (IF provider = "claude" THEN FromUnixMilli(resp.expiresAt)
          ELSE resp.expiresAt * TicksPerSecond)
    ELSE IF provider = "chatgpt" THEN n + chatGPTDefaultTokenExpiry
    ELSE ZeroTime

\* Refresh, "Calculate expiry time": expires_at (Claude: time.UnixMilli,
\* ChatGPT: time.Unix), then now + expires_in seconds, then ChatGPT's default;
\* Claude's switch has no default and leaves ExpiresAt unset
ExpiresAtOf(provider, resp, n) ==
    IF resp.expiresAt > 0
    THEN (IF provider = "claude" THEN FromUnixMilli(resp.expiresAt)
          ELSE resp.expiresAt * TicksPerSecond)
    ELSE IF resp.expiresIn > 0 THEN n + resp.expiresIn * TicksPerSecond
    ELSE IF provider = "chatgpt" THEN n + chatGPTDefaultTokenExpiry
    ELSE ZeroTime

\* a Refresh that takes the refresh token of the response as it is
RefreshTokenOf_FromResponse(resp, refreshToken) == resp.refreshToken

\* Refresh, "Use new refresh token if provided, otherwise keep the old one"
RefreshTokenOf(resp, refreshToken) ==
    IF resp.refreshToken # NoTok THEN resp.refreshToken ELSE refreshToken

\* ClaudeRefresher.Refresh / ChatGPTRefresher.Refresh(ctx, refreshToken) at
\* time n when the endpoint answers resp
Refresh(provider, refreshToken, resp, n) ==
    IF refreshToken = NoTok THEN LoadError("refresh token is empty")
    ELSE IF resp.status # StatusOK THEN LoadError("refresh failed")
    ELSE IF resp.accessToken = NoTok THEN LoadError("refresh response missing access_token")
    ELSE Loaded(Cred(resp.accessToken,
                     RefreshTokenOf(resp, refreshToken),
                     ExpiresAtOf(provider, resp, n),
                     IF provider = "claude" THEN ClaudeMetadata(<<>>, "", FALSE, "")
                     ELSE ChatGPTMetadata(resp.idToken, resp.accountID, "")))

\* ChatGPTHeaderProvider.ExtraHeaders(metadata)
ChatGPTExtraHeaders(metadata) ==
    IF metadata.type # "chatgpt" THEN NoHeaders
    ELSE IF metadata.accountID = "" THEN NoHeaders
    ELSE SetHeader(NoHeaders, hAccountId, <<metadata.accountID>>)

\* refreshLocked up to the Save: the refresher's result, and the new m.creds
refreshLockedCall(provider, c, resp, n) ==
    LET out == IF c.rt = NoTok THEN LoadError(ErrMissingRT)
               ELSE Refresh(provider, c.rt, resp, n)
    IN  [out |-> out, result |-> refreshLockedResult(c, out)]

\* the records a manager is constructed with
RefreshedRecords(provider) ==
    { Cred(at, rt, exp,
           IF provider = "claude" THEN ClaudeMetadata(<<"scope1", "scope2">>, "pro", TRUE, "default")
           ELSE ChatGPTMetadata("id-loaded", "acct-loaded", key)) :
        at \in {NoTok, LoadedTok}, rt \in {NoTok, LoadedRT}, exp \in {ZeroTime, StartTime + 1},
        key \in {"", "sk-loaded"} }

RefreshCallsOf(p) ==
    { [fn |-> "refreshLocked", provider |-> p, loaded |-> c, creds |-> c, prev |-> c,
       resp |-> CHOOSE r \in TokenResponses : TRUE, n |-> ZeroTime,
       returned |-> FALSE, out |-> LoadError("-"), err |-> NoErr] :
        c \in RefreshedRecords(p) }

RefreshInit ==
    /\ ManagerInit(Cred(LoadedTok, LoadedRT, ZeroTime, MetaLoaded))
    /\ users = NoUsers
    /\ req = NoReq
    /\ call \in RefreshCallsOf("claude") \cup RefreshCallsOf("chatgpt")

\* one more refreshLocked on the manager, the endpoint answering resp
RefreshAttempt ==
    /\ call.fn = "refreshLocked"
    /\ \E resp \in TokenResponses :
          LET r == refreshLockedCall(call.provider, call.creds, resp, now)
          IN  call' = [call EXCEPT !.prev = call.creds, !.creds = r.result.creds,
                                   !.resp = resp, !.n = now, !.returned = TRUE,
                                   !.out = r.out, !.err = r.result.err]
    /\ OnlyCall

RefreshNext == RefreshAttempt \/ Tick

RefreshSpec == RefreshInit /\ [][RefreshNext]_vars

\* ----------------------------------------------- the registry, per call
\* newProviderRegistry on a list of registrations, then Resolve on the
\* registry it returned.

MaxEntries == 3     \* registrations in one list

\* the prefixes of the registrations
Prefixes ==
    { EmptyStr, <<"/">>, claudePrefix, claudePrefix \o <<"/">>, claudePrefix \o <<"x">>,
      claudePrefix \o <<"/", "/">>, chatGPTPrefix, <<"/", "c">> }

\* the lists of registrations: the i-th names provider i
EntryLists ==
    UNION { [1..n -> Prefixes] : n \in 0..MaxEntries }

Registrations(prefixes) ==
    [i \in DOMAIN prefixes |-> [prefix |-> prefixes[i], provider |-> i]]

\* r.URL.Path of the requests
ResolvePaths ==
    Paths \cup { <<"/">>, claudePrefix \o <<"/">>, claudePrefix \o <<"x">>,
                 claudePrefix \o <<"/", "/", "m">>, chatGPTPrefix,
                 <<"/", "c", "/">> \o claudePrefix }

RegistryInit ==
    /\ ManagerInit(Cred(LoadedTok, LoadedRT, ZeroTime, MetaLoaded))
    /\ users = NoUsers
    /\ req = NoReq
    /\ \E prefixes \in EntryLists :
          call = [fn |-> "newProviderRegistry", entries |-> Registrations(prefixes),
                  returned |-> FALSE, out |-> [err |-> NoErr, entries |-> <<>>],
                  resolved |-> FALSE, path |-> EmptyStr, hit |-> ResolveIn(<<>>, EmptyStr)]

\* NewService: registry, err := newProviderRegistry(entries)
NewRegistry ==
    /\ call.fn = "newProviderRegistry"
    /\ ~call.returned
    /\ call' = [call EXCEPT !.returned = TRUE, !.out = newProviderRegistry(call.entries)]
    /\ OnlyCall

\* ServeHTTP: s.registry.Resolve(r.URL.Path)
ResolvePath ==
    /\ call.fn = "newProviderRegistry"
    /\ call.returned
    /\ call.out.err = NoErr
    /\ \E path \in ResolvePaths :
          call' = [call EXCEPT !.resolved = TRUE, !.path = path,
                                  !.hit = ResolveIn(call.out.entries, path)]
    /\ OnlyCall

RegistryNext == NewRegistry \/ ResolvePath

RegistrySpec == RegistryInit /\ [][RegistryNext]_vars

\* ------------------------------------------------------- streamResponse
\* The relay of a text/event-stream body.  The upstream writes the body in
\* chunks; byte i of the body is the number i.  `body` is what the upstream
\* has produced, `chunks` where each chunk ends, `rd` how much of it
\* resp.Body.Read has returned, `buf` the bytes in buffer[:n], `wbuf` the
\* bytes written to the ResponseWriter and not sent yet, `client` the bytes
\* the client has received.  A paced upstream waits between two chunks until
\* the pipeline has come to rest; any other produces when it likes.

MaxBody == 4         \* bytes in the upstream body
BufferSize == 2      \* len(buffer), the most one Read returns
MaxChunk == 2        \* bytes the upstream writes at once

\* a Flush that leaves the written bytes in the ResponseWriter's buffer
flusherFlush_Buffered(client, wbuf) == [client |-> client, wbuf |-> wbuf]

\* flusher.Flush(): the written bytes go to the client
flusherFlush(client, wbuf) == [client |-> client \o wbuf, wbuf |-> <<>>]

Min(a, b) == IF a <= b THEN a ELSE b

StreamInit ==
    /\ ManagerInit(Cred(LoadedTok, LoadedRT, ZeroTime, MetaLoaded))
    /\ users = NoUsers
    /\ req = NoReq
    /\ \E paced \in BOOLEAN :
          call = [fn |-> "streamResponse", paced |-> paced, body |-> <<>>, chunks |-> <<>>,
                  closed |-> FALSE, rd |-> 0, buf |-> <<>>, err |-> FALSE, wbuf |-> <<>>,
                  client |-> <<>>, gone |-> FALSE, failed |-> FALSE, step |-> "read"]

\* resp.Body.Read has nothing to return yet
Blocked == call.step = "read" /\ call.rd = Len(call.body) /\ ~call.closed

\* the upstream writes its next chunk
Produce ==
    /\ call.fn = "streamResponse"
    /\ ~call.closed
    /\ call.paced => Blocked
    /\ \E size \in 1..MaxChunk :
          /\ Len(call.body) + size <= MaxBody
          /\ call' = [call EXCEPT
                !.body = call.body \o [i \in 1..size |-> Len(call.body) + i],
                !.chunks = Append(call.chunks, Len(call.body) + size)]
    /\ OnlyCall

\* the upstream ends the body
CloseBody ==
    /\ call.fn = "streamResponse"
    /\ ~call.closed
    /\ call' = [call EXCEPT !.closed = TRUE]
    /\ OnlyCall

\* the client goes away: the next Write fails
ClientGoes ==
    /\ call.fn = "streamResponse"
    /\ ~call.gone
    /\ call' = [call EXCEPT !.gone = TRUE]
    /\ OnlyCall

\* n, err := resp.Body.Read(buffer): some of the bytes at hand, with or
\* without the end of the body; or no byte and the end
BodyRead ==
    /\ call.fn = "streamResponse"
    /\ call.step = "read"
    /\ \/ /\ call.rd < Len(call.body)
          /\ \E n \in 1..Min(Len(call.body) - call.rd, BufferSize), e \in BOOLEAN :
                /\ e => (call.closed /\ call.rd + n = Len(call.body))
                /\ call' = [call EXCEPT !.buf = SubSeq(call.body, call.rd + 1, call.rd + n),
                                        !.rd = call.rd + n, !.err = e, !.step = "write"]
       \/ /\ call.rd = Len(call.body)
          /\ call.closed
          /\ call' = [call EXCEPT !.err = TRUE, !.step = "returned"]
    /\ OnlyCall

\* w.Write(buffer[:n]); on an error streamResponse returns
WriterWrite ==
    /\ call.fn = "streamResponse"
    /\ call.step = "write"
    /\ IF call.gone
       THEN call' = [call EXCEPT !.failed = TRUE, !.step = "returned"]
       ELSE call' = [call EXCEPT !.wbuf = call.wbuf \o call.buf, !.buf = <<>>,
                                 !.step = "flush"]
    /\ OnlyCall

\* flusher.Flush(), then the test of Read's error
WriterFlush ==
    /\ call.fn = "streamResponse"
    /\ call.step = "flush"
    /\ LET f == flusherFlush(call.client, call.wbuf)
       IN  call' = [call EXCEPT !.client = f.client, !.wbuf = f.wbuf,
                                !.step = IF call.err THEN "returned" ELSE "read"]
    /\ OnlyCall

\* ServeHTTP returns: net/http sends what the ResponseWriter still holds
HandlerReturns ==
    /\ call.fn = "streamResponse"
    /\ call.step = "returned"
    /\ call' = [call EXCEPT !.client = IF call.failed THEN call.client
                                       ELSE call.client \o call.wbuf,
                            !.wbuf = <<>>, !.step = "finished"]
    /\ OnlyCall

StreamNext ==
    \/ Produce
    \/ CloseBody
    \/ ClientGoes
    \/ BodyRead
    \/ WriterWrite
    \/ WriterFlush
    \/ HandlerReturns

StreamSpec == StreamInit /\ [][StreamNext]_vars

\* ------------------------------------------- the upstream exchange's timer
\* s.client.Do(upstreamReq) and the relay of an event stream behind it, with
\* the clock of the exchange.  `elapsed` is the time since the request was
\* sent, `sent` the times at which the upstream wrote its events, `client`
\* the number of events the client has received.

MaxElapsed == 4      \* the exchange is followed for this long
MaxEvents == 2       \* events in the upstream stream
RequestTimeouts == 1..2

\* http.Client.Timeout: a timer that covers the reading of the body too
ClientTimeout(phase) == phase \in {"await", "relay"}

\* Transport.ResponseHeaderTimeout: the timer runs while the transport waits
\* for the response headers
ResponseHeaderTimeout(phase) == phase = "await"

TimeoutInit ==
    /\ ManagerInit(Cred(LoadedTok, LoadedRT, ZeroTime, MetaLoaded))
    /\ users = NoUsers
    /\ req = NoReq
    /\ \E d \in RequestTimeouts :
          call = [fn |-> "Do", timeout |-> d, elapsed |-> 0, phase |-> "await",
                  sent |-> <<>>, client |-> 0]

\* the timer has run out
TimerDue == ResponseHeaderTimeout(call.phase) /\ call.elapsed >= call.timeout

\* time passes, unless a timer that is due has to fire first
Elapse ==
    /\ call.fn = "Do"
    /\ call.elapsed < MaxElapsed
    /\ ~TimerDue
    /\ call' = [call EXCEPT !.elapsed = call.elapsed + 1]
    /\ OnlyCall

\* the response headers arrive: client.Do returns the response
HeadersArrive ==
    /\ call.fn = "Do"
    /\ call.phase = "await"
    /\ call' = [call EXCEPT !.phase = "relay"]
    /\ OnlyCall

\* the timer fires: the exchange is aborted (client.Do or Read returns an error)
TimerFires ==
    /\ call.fn = "Do"
    /\ TimerDue
    /\ call' = [call EXCEPT !.phase = "error"]
    /\ OnlyCall

\* the upstream writes an event
UpstreamEvent ==
    /\ call.fn = "Do"
    /\ call.phase = "relay"
    /\ Len(call.sent) < MaxEvents
    /\ call' = [call EXCEPT !.sent = Append(call.sent, call.elapsed)]
    /\ OnlyCall

\* streamResponse copies the next event to the client
RelayEvent ==
    /\ call.fn = "Do"
    /\ call.phase = "relay"
    /\ call.client < Len(call.sent)
    /\ call' = [call EXCEPT !.client = call.client + 1]
    /\ OnlyCall

\* the upstream ends the stream and streamResponse returns
StreamEnds ==
    /\ call.fn = "Do"
    /\ call.phase = "relay"
    /\ call.client = Len(call.sent)
    /\ call' = [call EXCEPT !.phase = "done"]
    /\ OnlyCall

TimeoutNext ==
    \/ Elapse
    \/ HeadersArrive
    \/ TimerFires
    \/ UpstreamEvent
    \/ RelayEvent
    \/ StreamEnds

\* the copy loop of streamResponse runs until the body ends
TimeoutSpec == TimeoutInit /\ [][TimeoutNext]_vars /\ WF_vars(RelayEvent)

\* ------------------------------------------------------- sanitizeHeaders
\* The headers ServeHTTP logs.  Here the values of the headers are strings of
\* characters: maskToken looks at their length and their first characters.

hOpenAIOrganization ==
    <<"O","p","e","n","a","i","-","O","r","g","a","n","i","z","a","t","i","o","n">>

Stars == <<"*","*","*">>
Dots == <<".",".",".">>
ShortValue == <<"o","r","g">>
EightValue == <<"s","e","c","r","e","t","-","8">>
LongValue == <<"B","e","a","r","e","r"," ","s","e","c","r","e","t">>

\* maskToken(token)
maskToken(token) ==
    IF Len(token) <= Len(EightValue) THEN Stars
    ELSE SubSeq(token, 1, Len(EightValue)) \o Dots

\* maskHeader(headers, key)
maskHeader(headers, key) ==
    LET val == GetHeader(headers, key)
    IN  IF val # EmptyStr THEN SetHeader(headers, key, maskToken(val)) ELSE headers

\* cloneHeaders(src): a new map with a copy of every slice of values
cloneHeaders(src) == [k \in DOMAIN src |-> [i \in 1..Len(src[k]) |-> src[k][i]]]

\* sanitizeHeaders(src): the map returned, and src as the call leaves it
sanitizeHeaders(src) ==
    [dst |-> maskHeader(maskHeader(maskHeader(maskHeader(cloneHeaders(src),
                 hAuthorization), hProxyAuthorization), hOpenAIOrganization), hAccountId),
     src |-> src]

\* the values of one header of a request: none, one value of up to 8 or of
\* more characters, or two header lines, the first of which may be empty
LoggedValues ==
    { <<>>, <<ShortValue>>, <<EightValue>>, <<LongValue>>,
      <<LongValue, ShortValue>>, <<EmptyStr, LongValue>> }

LoggedHeaders ==
    { WithValues(WithValues(WithValues(WithValues(WithValues(NoHeaders,
          hAuthorization, a), hProxyAuthorization, p), hOpenAIOrganization, o),
          hAccountId, c), hTrace, t) :
        a \in LoggedValues, p \in LoggedValues, o \in {<<>>, <<ShortValue>>},
        c \in LoggedValues, t \in {<<>>, <<LongValue, ShortValue>>} }

SanitizeInit ==
    /\ ManagerInit(Cred(LoadedTok, LoadedRT, ZeroTime, MetaLoaded))
    /\ users = NoUsers
    /\ req = NoReq
    /\ \E h \in LoggedHeaders :
          call = [fn |-> "sanitizeHeaders", hdr |-> h, src |-> h, returned |-> FALSE,
                  out |-> NoHeaders]

\* sanitizeHeaders(r.Header)
SanitizeCall ==
    /\ call.fn = "sanitizeHeaders"
    /\ ~call.returned
    /\ LET r == sanitizeHeaders(call.hdr)
       IN  call' = [call EXCEPT !.returned = TRUE, !.out = r.dst, !.src = r.src]
    /\ OnlyCall

SanitizeNext == SanitizeCall

SanitizeSpec == SanitizeInit /\ [][SanitizeNext]_vars

\* --------------------------------------------------------- the Authenticator
\* One goroutine calls Update, another HasUsers and Authenticate.  `users` is
\* a.tokenToUser; the call record holds a.mu (w: the writer holds it, r: the
\* number of readers), the position of both goroutines, the list the current
\* or last Update was given and the table that Update found.

MaxUpdates == 2      \* calls of Update after NewAuthenticator
otherToken == <<"k","2">>
Tokens == {userToken, otherToken}

\* cfg.Users: up to two users, two of which may share a token
UserLists ==
    LET us == { [token |-> userToken, name |-> "alice"],
                [token |-> otherToken, name |-> "bob"],
                [token |-> userToken, name |-> "carol"] }
    IN  {<<>>} \cup {<<u>> : u \in us} \cup {<<u, v>> : u \in us, v \in us}

\* a.tokenToUser[user.Token] = user.Name
PutUser(tbl, user) ==
    [t \in DOMAIN tbl \cup {user.token} |-> IF t = user.token THEN user.name ELSE tbl[t]]

\* the table Update(list) leaves
RECURSIVE TableOf(_)
TableOf(list) ==
    IF list = <<>> THEN NoUsers
    ELSE PutUser(TableOf(SubSeq(list, 1, Len(list) - 1)), list[Len(list)])

\* an RLock that does not wait for the writer
AuthRLock_NoExclusion(c) == TRUE

\* a.mu.RLock() and a.mu.Lock() can be taken
AuthRLock(c) == ~c.w
AuthLock(c) == ~c.w /\ c.r = 0

\* what HasUsers() or Authenticate(token) returns on the table tbl
ReadOf(tbl, op, token) ==
    IF op = "HasUsers" THEN [user |-> "", ok |-> HasUsers(tbl)]
    ELSE Authenticate(tbl, token)

AuthInit ==
    /\ ManagerInit(Cred(LoadedTok, LoadedRT, ZeroTime, MetaLoaded))
    /\ req = NoReq
    /\ \E list \in UserLists :
          /\ users = TableOf(list)
          /\ call = [fn |-> "Authenticator", w |-> FALSE, r |-> 0,
                     upd |-> "idle", list |-> list, i |-> Len(list) + 1,
                     old |-> TableOf(list), updates |-> 0,
                     rd |-> "idle", op |-> "HasUsers", token |-> userToken,
                     out |-> [user |-> "", ok |-> FALSE]]

\* everything but a.tokenToUser and the call record
OnlyAuthenticator ==
    UNCHANGED <<now, creds, file, started, stopCh, closed, made, mu, pc, n0, newc,
                rerr, mych, sel, res, ctxDone, refresherOK, req>>

\* Update(users): a.mu.Lock()
UpdateLock ==
    /\ call.fn = "Authenticator"
    /\ call.upd = "idle"
    /\ call.updates < MaxUpdates
    /\ AuthLock(call)
    /\ \E list \in UserLists :
          call' = [call EXCEPT !.w = TRUE, !.upd = "make", !.list = list, !.i = 1,
                               !.old = users, !.updates = call.updates + 1]
    /\ UNCHANGED users
    /\ OnlyAuthenticator

\* a.tokenToUser = make(map[string]string, len(users))
UpdateMake ==
    /\ call.fn = "Authenticator"
    /\ call.upd = "make"
    /\ users' = NoUsers
    /\ call' = [call EXCEPT !.upd = "fill"]
    /\ OnlyAuthenticator

\* one turn of the loop over users
UpdatePut ==
    /\ call.fn = "Authenticator"
    /\ call.upd = "fill"
    /\ call.i <= Len(call.list)
    /\ users' = PutUser(users, call.list[call.i])
    /\ call' = [call EXCEPT !.i = call.i + 1]
    /\ OnlyAuthenticator

\* the loop is over: the deferred a.mu.Unlock(), Update returns
UpdateUnlock ==
    /\ call.fn = "Authenticator"
    /\ call.upd = "fill"
    /\ call.i > Len(call.list)
    /\ call' = [call EXCEPT !.w = FALSE, !.upd = "idle"]
    /\ UNCHANGED users
    /\ OnlyAuthenticator

\* HasUsers() or Authenticate(token): a.mu.RLock()
ReadLock ==
    /\ call.fn = "Authenticator"
    /\ call.rd = "idle"
    /\ AuthRLock(call)
    /\ \E op \in {"HasUsers", "Authenticate"}, token \in Tokens :
          /\ op = "HasUsers" => token = userToken
          /\ call' = [call EXCEPT !.r = call.r + 1, !.rd = "locked", !.op = op,
                                  !.token = token]
    /\ UNCHANGED users
    /\ OnlyAuthenticator

\* the read of a.tokenToUser
ReadTable ==
    /\ call.fn = "Authenticator"
    /\ call.rd = "locked"
    /\ call' = [call EXCEPT !.rd = "read", !.out = ReadOf(users, call.op, call.token)]
    /\ UNCHANGED users
    /\ OnlyAuthenticator

\* the deferred a.mu.RUnlock(), the call returns
ReadUnlock ==
    /\ call.fn = "Authenticator"
    /\ call.rd = "read"
    /\ call' = [call EXCEPT !.r = call.r - 1, !.rd = "idle"]
    /\ UNCHANGED users
    /\ OnlyAuthenticator

AuthNext ==
    \/ UpdateLock
    \/ UpdateMake
    \/ UpdatePut
    \/ UpdateUnlock
    \/ ReadLock
    \/ ReadTable
    \/ ReadUnlock

AuthSpec == AuthInit /\ [][AuthNext]_vars

\* ------------------------------------------ the refresh window of Claude
\* NewService hands cfg.RefreshCheckInterval to NewClaudeCredentials as the
\* manager's RefreshInterval.  Times here are in seconds.

claudeTokenRefreshBuffer == 60     \* 60 * 1000 milliseconds
defaultRefreshInterval == 600      \* 10 * time.Minute

\* cfg.RefreshCheckInterval (validated: positive), the time of the check and
\* the time the token has left
RefreshCheckIntervals == {30, 60, 120, 600}
CheckTimes == {1000, 2000}
Remainings == {0, 10, 30, 59, 60, 61, 119, 300, 700}

\* NewCredentialManager: m.refreshInterval
ManagerRefreshInterval(refreshInterval) ==
    IF refreshInterval <= 0 THEN defaultRefreshInterval ELSE refreshInterval

\* NewService, case "claude": the RefreshInterval of the Claude manager
ClaudeRefreshInterval(refreshCheckInterval) == ManagerRefreshInterval(refreshCheckInterval)

\* needsRefreshLocked of a manager whose refreshInterval is `interval`
needsRefreshWithin(c, n, interval) ==
    IF c.at = NoTok THEN TRUE
    ELSE IF c.exp # ZeroTime THEN c.exp < n + interval
    ELSE TRUE

WindowInit ==
    /\ ManagerInit(Cred(LoadedTok, LoadedRT, ZeroTime, MetaLoaded))
    /\ users = NoUsers
    /\ req = NoReq
    /\ \E i \in RefreshCheckIntervals, n \in CheckTimes, r \in Remainings :
          call = [fn |-> "refreshIfNeeded", interval |-> i, n |-> n,
                  creds |-> Cred(LoadedTok, LoadedRT, n + r, MetaLoaded),
                  returned |-> FALSE, refresh |-> FALSE]

\* one check of the Claude manager NewService has built
ClaudeCheck ==
    /\ call.fn = "refreshIfNeeded"
    /\ ~call.returned
    /\ call' = [call EXCEPT
          !.returned = TRUE,
          !.refresh = needsRefreshWithin(call.creds, call.n,
                                         ClaudeRefreshInterval(call.interval))]
    /\ OnlyCall

WindowNext == ClaudeCheck

WindowSpec == WindowInit /\ [][WindowNext]_vars

\* ---------------------------------------------------------------- buildURL
\* The URL of the upstream request: the path of the provider's base URL, the
\* path Resolve trimmed and the downstream query, as strings of characters.

v1Prefix == <<"/","v","1">>

\* strings.TrimPrefix(s, prefix)
TrimPrefix(s, prefix) ==
    IF HasPrefix(s, prefix) THEN SubSeq(s, Len(prefix) + 1, Len(s)) ELSE s

\* ClaudeProvider.buildURL(path, rawQuery)
ClaudeBuildURL(base, path, rawQuery) ==
    [path |-> TrimSuffixSlash(base) \o path, query |-> rawQuery]

\* ChatGPTProvider.buildURL(path, rawQuery)
ChatGPTBuildURL(base, path, rawQuery) ==
    LET trimmedPath == TrimPrefix(path, v1Prefix)
    IN  [path |-> TrimSuffixSlash(base)
                    \o (IF trimmedPath = EmptyStr THEN <<"/">> ELSE trimmedPath),
         query |-> rawQuery]

\* p.base.Path: of the providers' own base URLs, of a test server, and one
\* with a trailing slash
BasePaths == { EmptyStr, <<"/","b","a","c","k","e","n","d","-","a","p","i","/","c","o","d","e","x">>, <<"/","a","p","i","/">> }

\* the paths Resolve hands on
TrimmedPaths ==
    { <<"/">>,
      <<"/","v","1">>,
      <<"/","v","1","/">>,
      <<"/","v","1","/","x">>,
      <<"/","v","1","/","v","1","/","x">>,
      <<"/","v","1","b","e","t","a","/","x">>,
      <<"/","v","1","0","/","x">>,
      <<"/","x">> }

RawQueries == { EmptyStr, <<"a","=","1">>, <<"a","=","/","v","1","&","b","=","2">> }

URLInit ==
    /\ ManagerInit(Cred(LoadedTok, LoadedRT, ZeroTime, MetaLoaded))
    /\ users = NoUsers
    /\ req = NoReq
    /\ \E p \in {"claude", "chatgpt"}, b \in BasePaths, path \in TrimmedPaths,
          q \in RawQueries :
          call = [fn |-> "buildURL", provider |-> p, base |-> b, path |-> path,
                  query |-> q, returned |-> FALSE,
                  out |-> [path |-> EmptyStr, query |-> EmptyStr]]

\* p.buildURL(trimmedPath, downstream.URL.RawQuery)
BuildURL ==
    /\ call.fn = "buildURL"
    /\ ~call.returned
    /\ call' = [call EXCEPT
          !.returned = TRUE,
          !.out = IF call.provider = "claude"
                  THEN ClaudeBuildURL(call.base, call.path, call.query)
                  ELSE ChatGPTBuildURL(call.base, call.path, call.query)]
    /\ OnlyCall

URLNext == BuildURL

URLSpec == URLInit /\ [][URLNext]_vars

\* ------------------------------------------------- the logged error body
\* The copy of a response body with a status of 400 or more, which is not an
\* event stream: io.Copy writes what it reads to io.MultiWriter(lrw, bodyTee),
\* that is to the client first and to the limitedBuffer second.  Byte i of
\* the body is the number i.  `copied` is how much of the body io.Copy has
\* read, `lb` the limitedBuffer, `total` the bytes written to it, `n` and
\* `err` what its last Write returned for a slice of `wrote` bytes.

MaxErrorBody == 5    \* bytes in the upstream body
MaxWrite == 2        \* the most one Read of io.Copy returns
MaxLimit == 3        \* the largest limit of a limitedBuffer

\* a Write that reports the number of bytes it has kept
limitedBufferWrite_ShortCount(lb, p) ==
    LET remain == lb.limit - Len(lb.buf)
        kept == IF remain <= 0 THEN 0 ELSE Min(Len(p), remain)
    IN  [lb |-> [lb EXCEPT !.buf = lb.buf \o SubSeq(p, 1, kept),
                           !.truncated = lb.truncated \/ kept < Len(p)],
         n |-> kept, err |-> FALSE]

\* limitedBuffer.Write(p)
limitedBufferWrite(lb, p) ==
    IF lb.limit <= 0 THEN [lb |-> lb, n |-> Len(p), err |-> FALSE]
    ELSE LET remain == lb.limit - Len(lb.buf)
         IN  IF remain > 0
             THEN IF Len(p) <= remain
                  THEN [lb |-> [lb EXCEPT !.buf = lb.buf \o p], n |-> Len(p), err |-> FALSE]
                  ELSE [lb |-> [lb EXCEPT !.buf = lb.buf \o SubSeq(p, 1, remain),
                                          !.truncated = TRUE],
                        n |-> Len(p), err |-> FALSE]
             ELSE [lb |-> [lb EXCEPT !.truncated = TRUE], n |-> Len(p), err |-> FALSE]

ErrorBodyInit ==
    /\ ManagerInit(Cred(LoadedTok, LoadedRT, ZeroTime, MetaLoaded))
    /\ users = NoUsers
    /\ req = NoReq
    /\ \E size \in 0..MaxErrorBody, limit \in 0..MaxLimit :
          call = [fn |-> "copyBody", body |-> size, copied |-> 0, client |-> <<>>,
                  lb |-> [buf |-> <<>>, limit |-> limit, truncated |-> FALSE],
                  total |-> 0, wrote |-> 0, n |-> 0, err |-> FALSE,
                  gone |-> FALSE, step |-> "copy"]

\* the client goes away: the next Write to lrw fails
ClientLeaves ==
    /\ call.fn = "copyBody"
    /\ call.step = "copy"
    /\ ~call.gone
    /\ call' = [call EXCEPT !.gone = TRUE]
    /\ OnlyCall

\* one turn of io.Copy: a Read of at least one byte, the Write to lrw and,
\* if that succeeded, the Write to bodyTee; a failed or short Write ends the copy
CopyWrite ==
    /\ call.fn = "copyBody"
    /\ call.step = "copy"
    /\ \E size \in 1..MaxWrite :
          /\ call.copied + size <= call.body
          /\ LET p == [i \in 1..size |-> call.copied + i]
                 w == limitedBufferWrite(call.lb, p)
             IN  IF call.gone
                 THEN call' = [call EXCEPT !.copied = call.copied + size,
                                           !.step = "returned"]
                 ELSE call' = [call EXCEPT
                        !.copied = call.copied + size,
                        !.client = call.client \o p,
                        !.lb = w.lb, !.total = call.total + size,
                        !.wrote = size, !.n = w.n, !.err = w.err,
                        !.step = IF w.err \/ w.n # size THEN "returned" ELSE "copy"]
    /\ OnlyCall

\* Read returns io.EOF: io.Copy returns
CopyEOF ==
    /\ call.fn = "copyBody"
    /\ call.step = "copy"
    /\ call.copied = call.body
    /\ call' = [call EXCEPT !.step = "returned"]
    /\ OnlyCall

ErrorBodyNext ==
    \/ ClientLeaves
    \/ CopyWrite
    \/ CopyEOF

ErrorBodySpec == ErrorBodyInit /\ [][ErrorBodyNext]_vars

\* ---------------------------------------------------------------- claims

\* the spec's Valid state: AccessToken != "" AND (ExpiresAt unset OR ExpiresAt > now)
Valid(c, n) == c.at # NoTok /\ (c.exp = ZeroTime \/ c.exp > n)

\* the spec's refresh policy: AccessToken == "" OR (ExpiresAt set AND
\* ExpiresAt < now + RefreshInterval)
RefreshPolicy(c, n) == c.at = NoTok \/ (c.exp # ZeroTime /\ c.exp < n + RefreshInterval)

NeverStarted == made = 0 /\ \A t \in Callers : pc[t] = "idle"

\* C1: AuthorizationHeader returns "Bearer " + AccessToken exactly when the
\* record has a non-empty AccessToken and ExpiresAt is unset or after now, and
\* an error otherwise; IsAvailable is true for exactly the same records, also
\* before Start was ever called.
C1_AuthorizationHeaderIffValid ==
    /\ res.op = "AuthorizationHeader" =>
          IF Valid(creds, now)
          THEN res.ok /\ res.val = <<"Bearer ", creds.at>>
          ELSE ~res.ok /\ res.val = <<ErrUnavailable>>
    /\ res.op = "IsAvailable" => (res.ok <=> Valid(creds, now))

\* C1 witness: IsAvailable returned true on a manager that was never started.
C1_Witness == NeverStarted /\ res.op = "IsAvailable" /\ res.ok

\* refreshLocked is entered by thread t in this step
AttemptsRefresh(t) == pc'[t] = "refreshing" \/ rerr'[t] = ErrMissingRT

\* C2: at every check the manager attempts a refresh if and only if the
\* AccessToken is empty or ExpiresAt is set and before now + RefreshInterval;
\* a record with a token and an unset ExpiresAt never causes an attempt.
C2_RefreshIffPolicy ==
    [][\A t \in Threads :
         /\ (pc[t] = "rin_rlock" /\ pc'[t] # "rin_rlock")
              => (pc'[t] = "rin_lock" <=> RefreshPolicy(creds, n0[t]))
         /\ (pc[t] = "rin_lock" /\ pc'[t] # "rin_lock")
              => (AttemptsRefresh(t) <=> RefreshPolicy(creds, now))]_vars

InFlight(t) == pc[t] = "refreshing"

\* C3: while a refresher exchange is in flight, AuthorizationHeader,
\* ExtraHeaders and IsAvailable are not blocked by it: each call can complete.
C3_ReadsNeverBlocked ==
    (\E t \in Threads : InFlight(t)) =>
        (ENABLED AuthorizationHeader) /\ (ENABLED IsAvailable) /\ (ENABLED ExtraHeaders)

\* C4: at most one refresher exchange is in flight at any time.
C4_AtMostOneInFlight == Cardinality({t \in Threads : InFlight(t)}) <= 1

\* C4 witness: one exchange is in flight while another goroutine has decided
\* to refresh and waits for the write lock.
C4_Witness == \E t, u \in Threads : t # u /\ InFlight(t) /\ pc[u] = "rin_lock"

NoLoopYet == \A l \in Loops : pc[l] = "none"

\* C5: if the loaded record has an empty AccessToken or an ExpiresAt within
\* RefreshInterval of now, Start calls the refresher (once) before the loop is
\* launched; and a check that sees a refreshed token whose expiry is outside
\* the refresh window makes no refresher call.
C5_StartRefreshesOnce ==
    [][\A t \in Threads :
         /\ (t \in Callers /\ made = 1 /\ NoLoopYet /\ pc[t] = "rin_rlock"
               /\ pc'[t] # "rin_rlock" /\ RefreshPolicy(creds, n0[t]))
              => pc'[t] = "rin_lock"
         /\ (t \in Callers /\ made = 1 /\ NoLoopYet /\ pc[t] = "rin_lock"
               /\ pc'[t] # "rin_lock" /\ RefreshPolicy(creds, now))
              => (InFlight(t))' /\ NoLoopYet'
         /\ (pc[t] = "rin_lock" /\ creds.at = NewTok /\ ~RefreshPolicy(creds, now))
              => ~(InFlight(t))']_vars

\* this step is a refresh attempt of t that fails
FailedAttempt(t) == pc[t] \in {"rin_lock", "refreshing"} /\ rerr'[t] # NoErr

\* C6: a failed refresh attempt leaves the in-memory record and the file
\* unchanged and Start still returns nil; the old token keeps serving
\* (IsAvailable true) while its ExpiresAt is in the future, and once it has
\* passed IsAvailable is false and AuthorizationHeader returns an error.
C6_FailedRefreshKeepsRecord ==
    /\ [][\A t \in Threads :
            FailedAttempt(t) =>
               /\ creds' = creds
               /\ file' = file
               /\ tokenValidLocked(creds', now') = tokenValidLocked(creds, now)]_vars
    /\ [](res.op = "Start" => res.ok /\ res.val = <<NoErr>>)
    /\ []((creds.at = LoadedTok /\ creds.exp # ZeroTime) =>
            /\ res.op = "IsAvailable" => (res.ok <=> creds.exp > now)
            /\ res.op = "AuthorizationHeader" => (res.ok <=> creds.exp > now))

\* C6 witness: Start's refresh failed, the loaded token is still valid and the
\* file still holds the loaded record.
C6_Witness ==
    \E t \in Callers :
        /\ pc[t] = "start_go" /\ rerr[t] \in {ErrRefresher, ErrEmptyAT}
        /\ creds.at = LoadedTok /\ tokenValidLocked(creds, now) /\ file = creds

\* C7: in a successful refresh the in-memory record is replaced before
\* Store.Save is attempted; a failed Save leaves the new record in memory, the
\* refresh returns nil and AuthorizationHeader serves the new token.
C7_MemoryBeforeSave ==
    /\ [](\A t \in Threads : pc[t] = "saving" => creds = newc[t] /\ rerr[t] = NoErr)
    /\ [][file' # file => file' = creds /\ creds' = creds]_vars
    /\ [][\A t \in Threads :
            (pc[t] = "saving" /\ pc'[t] # "saving") =>
                creds' = creds /\ rerr'[t] = NoErr]_vars
    /\ []((file # creds /\ res.op = "AuthorizationHeader" /\ res.ok) =>
            res.val = <<"Bearer ", NewTok>> /\ creds.at = NewTok)

\* C7 witness: the Save of a refreshed record failed (the file holds an older
\* record) and AuthorizationHeader has served the refreshed token.
C7_Witness ==
    /\ file # creds /\ mu = NoHolder
    /\ res.op = "AuthorizationHeader" /\ res.ok /\ res.val = Bearer(NewTok)

Live(l) == pc[l] \notin {"none", "exited"}

\* C9: once Shutdown has returned (the stop channel it took is closed), the
\* refresh loop of that Start has exited, so it starts no refresher call.
C9_LoopExitedAfterShutdown == \A c \in closed : pc[LoopOf(c)] = "exited"

\* C10: at most one background refresh loop is live.
C10_AtMostOneLoop == Cardinality({l \in Loops : Live(l)}) <= 1

\* C8: for a started manager whose context is not cancelled, once the
\* refresher succeeds from some point on and the record needs refresh, the
\* manager eventually holds a refreshed token and is available (failed
\* attempts are retried at later ticks), unless it is shut down or cancelled.
C8_EventuallyRefreshed ==
    (started /\ ~ctxDone /\ refresherOK /\ creds.rt # NoTok
        /\ needsRefreshLocked(creds, now))
      ~> (~started \/ ctxDone \/ (creds.at = NewTok /\ tokenValidLocked(creds, now)))

\* C8 witness: the record still has no access token (Start's own attempt
\* failed), the endpoint has recovered, and a loop tick's exchange is in flight.
C8_Witness ==
    /\ started /\ ~ctxDone /\ refresherOK
    /\ creds.at = NoTok /\ creds.rt # NoTok
    /\ \E l \in Loops : InFlight(l)

\* the manager state a no-op call leaves alone
SameManager ==
    UNCHANGED <<creds, file, started, stopCh, closed, made, mu, ctxDone>>

\* C11: a Start call on a manager that is already started returns nil, makes
\* no refresher call, launches no loop and leaves the stop channel and the
\* record unchanged.
C11_StartIsIdempotent ==
    [][\A t \in Callers :
         (pc[t] = "start_lock" /\ started /\ pc'[t] # "start_lock") =>
            /\ pc'[t] = "idle"
            /\ res' = Returns("Start", TRUE, <<NoErr>>)
            /\ SameManager
            /\ \A u \in Threads \ {t} : pc'[u] = pc[u]]_vars

\* C11 witness: Start has returned while the loop of the only Start that made
\* a channel was already waiting in its select: the second Start was a no-op.
C11_Witness ==
    /\ res.op = "Start" /\ res.ok /\ started /\ made = 1
    /\ \E l \in Loops : pc[l] = "select"

\* C12: Shutdown on a manager that was never started or is already shut down
\* returns nil without waiting, closes no channel and changes no state; and
\* the channel a Shutdown closes is never nil and never closed before.
C12_ShutdownIsIdempotent ==
    /\ [][\A t \in Callers :
            (pc[t] = "sd_lock" /\ ~started /\ pc'[t] # "sd_lock") =>
               /\ pc'[t] = "idle"
               /\ res' = Returns("Shutdown", TRUE, <<NoErr>>)
               /\ SameManager
               /\ \A u \in Threads \ {t} : pc'[u] = pc[u]]_vars
    /\ [](\A t \in Callers : pc[t] = "sd_close" => mych[t] \in Chans \ closed)
    /\ [](\A t \in Callers : (pc[t] = "sd_lock" /\ ~started) => CanLock)

\* C13: after the context given to Start is cancelled, every live refresh
\* loop eventually exits, and a loop that has exited stays exited (it makes
\* no further refresher call).
C13_LoopExitsOnCancel ==
    /\ \A l \in Loops : (ctxDone /\ Live(l)) ~> (pc[l] = "exited")
    /\ [][\A l \in Loops : pc[l] = "exited" => pc'[l] = "exited"]_vars

\* C13 witness: the context is cancelled while a loop tick's exchange is in
\* flight.
C13_Witness == ctxDone /\ \E l \in Loops : InFlight(l)

ReadOps == {"AuthorizationHeader", "ExtraHeaders", "IsAvailable"}

\* C14: a call of AuthorizationHeader, ExtraHeaders or IsAvailable makes no
\* refresher call and no store write and leaves the record, the started flag
\* and the stop channel unchanged, whatever the state of the token.
C14_ReadsHaveNoEffect ==
    [][res'.op \in ReadOps =>
          /\ SameManager
          /\ UNCHANGED <<pc, newc, rerr, n0>>]_vars

\* C14 witness: AuthorizationHeader has failed on an expired token of a
\* started manager that holds a refresh token, and no refresh is under way.
C14_Witness ==
    /\ res.op = "AuthorizationHeader" /\ ~res.ok /\ started
    /\ creds.at # NoTok /\ creds.rt # NoTok /\ creds.exp # ZeroTime /\ creds.exp <= now
    /\ \A t \in Threads : pc[t] \notin {"refreshing", "saving"}

\* a response of ServeHTTP and its parts
Served == res.op = "ServeHTTP"
RespStatus == res.val[1]
RespDone == res.val[2]
RespCalled == res.val[3]
RespUp == res.val[4]
RespUser == res.val[5]
RespAuth == GetHeader(res.val[6], hAuthorization)

\* the order of the stages: resolve, availability, authenticate, build (the
\* headers, then the extra headers), execute, after the service start
PipelineOrder ==
    <<"start", "resolve", "available", "authenticate", "build", "extra", "execute">>

UpTo(n) == SubSeq(PipelineOrder, 1, n)

\* h is "Bearer <tok>": the scheme in any case, one space, and tok with
\* nothing but spaces around it
IsBearerOf(h, tok) ==
    /\ Len(h) >= 7
    /\ \A i \in 1..6 : ToLowerChar(h[i]) = <<"b","e","a","r","e","r">>[i]
    /\ h[7] = " "
    /\ \E i \in 8..Len(h) : \E j \in i..Len(h) :
          /\ SubSeq(h, i, j) = tok
          /\ \A k \in (8..(i - 1)) \cup ((j + 1)..Len(h)) : h[k] \in {" ", "\t"}

BadCredential(tbl, h) == h # EmptyStr /\ ~\E tok \in DOMAIN tbl : IsBearerOf(h, tok)

\* C15: every request is answered by the first failing stage in the order
\* resolve (404), availability (503), authenticate (401), build (400),
\* execute (502), otherwise the upstream response is relayed, and the stages
\* run in that order; a request with an invalid bearer token to a provider
\* whose credentials are unavailable gets 503.
C15_FirstFailingStage ==
    Served =>
       /\ RespStatus \in {StatusNotFound, StatusServiceUnavailable, StatusUnauthorized,
                          StatusBadRequest, StatusBadGateway, StatusOK}
       /\ RespStatus = StatusNotFound => RespDone = UpTo(2)
       /\ RespStatus = StatusServiceUnavailable => RespDone = UpTo(3)
       /\ RespStatus = StatusUnauthorized => RespDone = UpTo(4)
       /\ RespStatus = StatusBadRequest => RespDone \in {UpTo(5), UpTo(6)}
       /\ RespStatus \in {StatusBadGateway, StatusOK} => RespDone = UpTo(7)
       /\ (RespDone = UpTo(3)) => (RespStatus = StatusServiceUnavailable <=> ~Valid(creds, now))
       /\ (\E n \in 1..3 : RespDone = UpTo(n) /\ n >= 3 /\ ~Valid(creds, now)
             /\ BadCredential(users, RespAuth))
            => RespStatus = StatusServiceUnavailable

\* C15 witness: a request with a bearer token no user has got 503 from a
\* provider without valid credentials, the user table being non-empty.
C15_Witness ==
    /\ Served /\ RespStatus = StatusServiceUnavailable
    /\ HasUsers(users) /\ BadCredential(users, RespAuth)

\* C16: a request that reads credentials that are not valid is answered 503,
\* also when the token expires between the availability check and the
\* construction of the upstream request: never 400.
C16_UnavailableIs503 ==
    (Served /\ RespDone \in {UpTo(3), UpTo(5)} /\ ~Valid(creds, now))
        => RespStatus = StatusServiceUnavailable

C19_NoCallBeforeSuccess ==
    /\ Served =>
          /\ RespStatus \in {StatusNotFound, StatusServiceUnavailable,
                             StatusUnauthorized, StatusBadRequest} => ~RespCalled
          /\ RespCalled => RespDone = UpTo(7)
    /\ req.called => req.done = UpTo(7)

\* C19 witness: a request of a known user was rejected at the construction
\* of the upstream request, and the upstream was not called.
C19_Witness ==
    /\ Served /\ RespStatus = StatusBadRequest /\ ~RespCalled
    /\ RespUser = "alice"

\* the upstream headers carry the value v nowhere
NotForwarded(up, v) == \A k \in DOMAIN up : \A i \in DOMAIN up[k] : up[k][i] # v

\* C20: the Authorization header of the upstream request has exactly one
\* value, "Bearer " + the manager's access token, whatever the downstream
\* request carries: requests that differ only in their Authorization header
\* give the same upstream headers, and the client's value is not forwarded.
C20_UpstreamAuthorization ==
    /\ [][(req.stage = "build" /\ req'.stage \notin {"build", "idle"}) =>
            /\ req'.up[hAuthorization] = << <<"Bearer ", creds.at>> >>
            /\ \A a \in AuthHeaders :
                  WithAuthorization(req.provider,
                        DownstreamHeaders(a, DelHeader(req.hdr, hAuthorization)),
                        Bearer(creds.at)) = req'.up]_vars
    /\ [](Served /\ RespCalled =>
            /\ Len(RespUp[hAuthorization]) = 1
            /\ RespUp[hAuthorization][1][1] = "Bearer "
            /\ RespUp[hAuthorization][1][2] \in {LoadedTok, NewTok}
            /\ RespAuth # EmptyStr => NotForwarded(RespUp, RespAuth))

\* C20 witness: a request carrying a user's bearer token was relayed with the
\* manager's token in its place.
C20_Witness ==
    /\ Served /\ RespCalled /\ RespAuth = <<"B","e","a","r","e","r"," ","k","1">>
    /\ RespUp[hAuthorization] = <<Bearer(creds.at)>>


\* the spec's hop-by-hop headers: Connection, Keep-Alive, TE, Trailers,
\* Transfer-Encoding, Upgrade, Host and every Proxy-* header, in any case
HopByHop(name) ==
    \/ \E h \in {hConnection, hKeepAlive, hTe, hTrailers, hTransferEncoding, hUpgrade, hHost} :
          EqualFold(name, h)
    \/ /\ Len(name) >= 6
       /\ EqualFold(SubSeq(name, 1, 6), <<"P","r","o","x","y","-">>)

\* a call of fn has returned
Returned(fn) == call.fn = fn /\ call.returned

\* no hop-by-hop header in the headers `out`
NoHopByHop(out) == \A k \in DOMAIN out : ~HopByHop(k)

\* the header k of `in` is in `out` with all of its values in order (a
\* provider's own extra values come after them)
Forwarded(in, out, k) == k \in DOMAIN out /\ HasPrefix(out[k], in[k])

\* C21 as stated: hop-by-hop headers are on neither the upstream request nor
\* the relayed response, and every other downstream header except
\* Authorization, and every other upstream response header, is forwarded with
\* all of its values in order
C21_OtherHeadersForwarded ==
    /\ Returned("BuildUpstreamRequest") =>
          /\ NoHopByHop(call.out)
          /\ \A k \in DOMAIN call.hdr :
                (~HopByHop(k) /\ ~EqualFold(k, hAuthorization)) =>
                    Forwarded(call.hdr, call.out, k)
    /\ Returned("relay") =>
          /\ NoHopByHop(call.out)
          /\ \A k \in DOMAIN call.hdr : ~HopByHop(k) => Forwarded(call.hdr, call.out, k)

\* C21, amended: hop-by-hop headers are on neither the upstream request nor
\* the relayed response; every other downstream header except Authorization
\* and Anthropic-Beta (which the Claude provider merges and the ChatGPT
\* provider strips), and every other upstream response header, is forwarded
\* with all of its values in order
C21_HopByHopStripped ==
    /\ Returned("BuildUpstreamRequest") =>
          /\ NoHopByHop(call.out)
          /\ \A k \in DOMAIN call.hdr :
                (~HopByHop(k) /\ ~EqualFold(k, hAuthorization)
                    /\ ~EqualFold(k, hAnthropicBeta)) =>
                    Forwarded(call.hdr, call.out, k)
    /\ Returned("relay") =>
          /\ NoHopByHop(call.out)
          /\ \A k \in DOMAIN call.hdr :
                ~HopByHop(k) => (k \in DOMAIN call.out /\ call.out[k] = call.hdr[k])

C21_Witness ==
    /\ Returned("BuildUpstreamRequest")
    /\ hConnection \in DOMAIN call.hdr
    /\ hTrace \in DOMAIN call.out
    /\ Len(call.out[hTrace]) = 2


\* C22: for the Claude store and the ChatGPT store, Load returns an error for
\* a credential file that has a group or other permission bit set, that is
\* malformed, or whose refresh token is empty or missing
C22_LoadRequiresRefreshToken ==
    (/\ Returned("Load")
     /\ call.disk.exists
     /\ \/ GroupOrOtherBits(call.disk.perm)
        \/ ~call.disk.json
        \/ call.disk.body.refreshToken = NoTok)
    => call.out.err # NoErr

\* ExpiresAt has millisecond precision (or is unset)
MilliPrecision(t) == t % TicksPerMilli = 0

\* C23: ClaudeStore.Save(x) followed by ClaudeStore.Load() returns x, for
\* every x with ClaudeMetadata and a millisecond-precision ExpiresAt: the same
\* AccessToken, RefreshToken, ExpiresAt and metadata fields
C23_ClaudeRoundTrip ==
    (/\ Returned("SaveLoad")
     /\ call.store = "claude"
     /\ call.x.meta.type = "claude"
     /\ MilliPrecision(call.x.exp))
    => (call.out.err = NoErr /\ call.out.creds = call.x)

C23_Witness ==
    /\ Returned("SaveLoad")
    /\ call.store = "claude"
    /\ call.x.meta \in ClaudeMetadatas
    /\ call.x.meta.scopes # <<>>
    /\ call.x.exp > now
    /\ MilliPrecision(call.x.exp)
    /\ call.disk.body.expiresAt = UnixMilli(call.x.exp)

\* C24: ChatGPTStore.Save(x) followed by ChatGPTStore.Load() returns x, for
\* every x with ChatGPTMetadata: the same AccessToken, RefreshToken, ExpiresAt
\* and metadata fields
C24_ChatGPTRoundTrip ==
    (/\ Returned("SaveLoad")
     /\ call.store = "chatgpt"
     /\ call.x.meta.type = "chatgpt")
    => (call.out.err = NoErr /\ call.out.creds = call.x)


\* C25: a successful exchange sets ExpiresAt from expires_at when the
\* response has one, else from now + expires_in when it has one, else from
\* the provider's default (ChatGPT: now + 8 days; Claude has no default
\* lifetime: ExpiresAt stays unset); a status other than 200 or a response
\* without access_token gives an error and no credentials
C25_ExpiryPriority ==
    (Returned("refreshLocked") /\ call.prev.rt # NoTok) =>
        IF call.resp.status # StatusOK \/ call.resp.accessToken = NoTok
        THEN call.out.err # NoErr /\ call.out.creds = NoCreds
        ELSE /\ call.out.err = NoErr
             /\ call.out.creds.exp =
                  IF call.resp.expiresAt > 0
                  THEN (IF call.provider = "claude"
                        THEN call.resp.expiresAt * TicksPerMilli
                        ELSE call.resp.expiresAt * TicksPerSecond)
                  ELSE IF call.resp.expiresIn > 0
                  THEN call.n + call.resp.expiresIn * TicksPerSecond
                  ELSE IF call.provider = "chatgpt"
                  THEN call.n + 8 * 24 * 3600 * TicksPerSecond
                  ELSE ZeroTime

C25_Witness ==
    /\ Returned("refreshLocked")
    /\ call.prev.rt # NoTok
    /\ call.resp.status = StatusOK
    /\ call.resp.accessToken # NoTok
    /\ call.resp.expiresAt > 0
    /\ call.resp.expiresIn > 0
    /\ call.out.creds.exp # call.n + call.resp.expiresIn * TicksPerSecond

\* C26: from a loaded record with a refresh token, after any sequence of
\* refreshes the manager's RefreshToken is not empty: a successful refresh
\* sets it to the response's refresh token if it has one and keeps the
\* previous one otherwise, a failed refresh keeps it
C26_RefreshTokenNeverEmpty ==
    (call.fn = "refreshLocked" /\ call.loaded.rt # NoTok) =>
        /\ call.creds.rt # NoTok
        /\ call.returned =>
              call.creds.rt =
                  IF call.err = NoErr /\ call.resp.refreshToken # NoTok
                  THEN call.resp.refreshToken
                  ELSE call.prev.rt

C26_Witness ==
    /\ Returned("refreshLocked")
    /\ call.loaded.rt = LoadedRT
    /\ call.prev.rt = "rt-new"
    /\ call.err = NoErr
    /\ call.resp.refreshToken = NoTok
    /\ call.creds.rt = "rt-new"


\* a is a string-prefix of b
IsStringPrefix(a, b) == Len(a) <= Len(b) /\ SubSeq(b, 1, Len(a)) = a

\* p without one trailing slash
WithoutSlash(p) == IF p # <<>> /\ p[Len(p)] = "/" THEN SubSeq(p, 1, Len(p) - 1) ELSE p

Matches(path, p) ==
    \/ path = p
    \/ /\ Len(path) > Len(p)
       /\ SubSeq(path, 1, Len(p)) = p
       /\ path[Len(p) + 1] = "/"

\* the orders in which a list of n registrations can be given
Orders(n) == {f \in [1..n -> 1..n] : \A i, j \in 1..n : f[i] = f[j] => i = j}

\* C28: Resolve on a constructed registry matches a registered prefix p
\* exactly when path = p or path begins with p followed by "/"; at most one
\* registered prefix matches; the result is the same for every order of
\* registration; the trimmed path is the remainder after the prefix ("/" when
\* empty) and begins with "/"; a path that matches no prefix is not found
C28_ResolveLaw ==
    (call.fn = "newProviderRegistry" /\ call.resolved) =>
        LET reg == call.out.entries
            path == call.path
            hit == call.hit
            matching == {i \in DOMAIN reg : Matches(path, reg[i].prefix)}
        IN  /\ Cardinality(matching) <= 1
            /\ hit.ok <=> matching # {}
            /\ \A i \in matching :
                  LET rest == SubSeq(path, Len(reg[i].prefix) + 1, Len(path))
                  IN  /\ hit.provider = reg[i].provider
                      /\ hit.trimmed = IF rest = <<>> THEN <<"/">> ELSE rest
                      /\ hit.trimmed[1] = "/"
            /\ \A f \in Orders(Len(call.entries)) :
                  LET other == newProviderRegistry([i \in DOMAIN call.entries |-> call.entries[f[i]]])
                  IN  other.err = NoErr /\ ResolveIn(other.entries, path) = hit

C28_Witness ==
    /\ call.fn = "newProviderRegistry"
    /\ call.resolved
    /\ Len(call.out.entries) = 2
    /\ call.path = claudePrefix \o <<"x", "/", "v", "1">>
    /\ \E i \in DOMAIN call.out.entries : call.out.entries[i].prefix = claudePrefix
    /\ ~call.hit.ok


\* the value v occurs in the header value `value`
Occurs(v, value) ==
    \E j \in 1..Len(value) :
        j + Len(v) - 1 <= Len(value) /\ SubSeq(value, j, j + Len(v) - 1) = v

\* C29: the Claude provider's upstream request carries one anthropic-beta
\* value: the fixed oauth-2025-04-20 alone when the client sent none,
\* otherwise the fixed value first, merged with every value the client sent;
\* the ChatGPT provider's upstream request carries no anthropic-beta header
C29_BetaHeader ==
    Returned("BuildUpstreamRequest") =>
        IF call.provider = "claude"
        THEN /\ hAnthropicBeta \in DOMAIN call.out
             /\ Len(call.out[hAnthropicBeta]) = 1
             /\ LET up == call.out[hAnthropicBeta][1]
                    client == IF hAnthropicBeta \in DOMAIN call.hdr
                              THEN call.hdr[hAnthropicBeta] ELSE <<>>
                IN  IF client = <<>> THEN up = <<claudeBetaValue>>
                    ELSE /\ up[1] = claudeBetaValue
                         /\ \A i \in DOMAIN client : Occurs(client[i], up)
        ELSE \A k \in DOMAIN call.out : ~EqualFold(k, hAnthropicBeta)


\* C30: streamResponse has written and flushed every chunk it has read before
\* it reads the next one; with an upstream that pauses between chunks the
\* client has chunk k before chunk k+1 is produced; the client's bytes are
\* the upstream's bytes in order, none lost or duplicated, and all of them
\* when the body has ended and no write has failed
C30_FlushPerChunk ==
    call.fn = "streamResponse" =>
        /\ call.step = "read" =>
              /\ call.buf = <<>>
              /\ call.wbuf = <<>>
              /\ call.client = SubSeq(call.body, 1, call.rd)
        /\ call.paced =>
              \A k \in 1..(Len(call.chunks) - 1) : call.chunks[k] <= Len(call.client)
        /\ call.client = SubSeq(call.body, 1, Len(call.client))
        /\ (call.step = "finished" /\ ~call.failed) => call.client = call.body

C30_Witness ==
    /\ call.fn = "streamResponse"
    /\ call.paced
    /\ ~call.gone
    /\ call.step = "read"
    /\ Len(call.chunks) = 2
    /\ call.rd = call.chunks[1]
    /\ Len(call.client) = call.chunks[1]

\* C31: the request timeout bounds only the wait for the upstream response
\* headers: once the headers are received the relay is never aborted by it,
\* and every event the upstream writes, however late, reaches the client.
C31_TimeoutOnlyBeforeHeaders ==
    /\ [][call.phase = "relay" => call'.phase # "error"]_vars
    /\ \A k \in 1..MaxEvents :
          (call.phase = "relay" /\ Len(call.sent) >= k) ~> (call.client >= k)

\* C31 witness: an event written later than the request timeout after the
\* request began has been delivered.
C31_Witness ==
    /\ call.fn = "Do"
    /\ \E k \in 1..call.client : call.sent[k] > call.timeout

SensitiveHeaders == {hAuthorization, hProxyAuthorization, hOpenAIOrganization, hAccountId}

\* m shows at most the first 8 characters of v
MaskOf(v, m) ==
    IF Len(v) <= 8 THEN m = <<"*","*","*">>
    ELSE m = SubSeq(v, 1, 8) \o <<".",".",".">>

\* C32: sanitizeHeaders returns a copy in which each of Authorization,
\* Proxy-Authorization, OpenAI-Organization and ChatGPT-Account-Id that is
\* present holds a single masked value ("***" for a value of at most 8
\* characters, else its first 8 characters and "..."); all other headers are
\* copied unchanged and the input is not modified.
C32_SensitiveHeadersMasked ==
    Returned("sanitizeHeaders") =>
        /\ DOMAIN call.out = DOMAIN call.hdr
        /\ \A k \in DOMAIN call.hdr :
              IF k \in SensitiveHeaders
              THEN /\ Len(call.out[k]) = 1
                   /\ MaskOf(call.hdr[k][1], call.out[k][1])
                   /\ \A i \in 1..Len(call.hdr[k]) : call.out[k][1] # call.hdr[k][i]
              ELSE call.out[k] = call.hdr[k]
        /\ call.src = call.hdr

\* the tokens of a list of users
TokensOf(list) == {list[i].token : i \in 1..Len(list)}

\* C33: Update replaces the token table atomically: a concurrent HasUsers or
\* Authenticate reads the complete old table or the complete new one, and
\* once Update has returned Authenticate(t) succeeds exactly for the tokens
\* of the new list.
C33_UpdateAtomic ==
    /\ call.rd = "read" =>
          call.out \in { ReadOf(call.old, call.op, call.token),
                         ReadOf(TableOf(call.list), call.op, call.token) }
    /\ call.upd = "idle" =>
          \A t \in Tokens : Authenticate(users, t).ok <=> t \in TokensOf(call.list)

\* C33 witness: a reader holds the read lock on the table of the second Update,
\* which differs from the one before, has authenticated a token the table
\* before did not have, and the next Update cannot take the lock.
C33_Witness ==
    /\ call.fn = "Authenticator"
    /\ call.updates = 2 /\ call.upd = "idle"
    /\ call.rd = "read" /\ call.op = "Authenticate" /\ call.out.ok
    /\ call.token \notin DOMAIN call.old
    /\ ~AuthLock(call)

\* C34: a check of the Claude manager that NewService builds refreshes a
\* non-empty token exactly when less than 60 seconds remain before ExpiresAt,
\* whatever refresh_check_interval is.
C34_SixtySecondWindow ==
    Returned("refreshIfNeeded") =>
        (call.refresh <=> call.creds.exp - call.n < claudeTokenRefreshBuffer)

\* the record cannot serve a request at time n
Unavailable(c, n) == c.at = NoTok \/ (c.exp # ZeroTime /\ c.exp <= n)

\* C35: for a manager with a non-empty RefreshToken, a record that is
\* unavailable (empty AccessToken, or ExpiresAt set and not after now) makes
\* every check call the refresher; and a valid record whose ExpiresAt is at
\* or beyond now + RefreshInterval never causes a refresher call.
C35_UnavailableImpliesRefresh ==
    /\ [](creds.rt # NoTok /\ Unavailable(creds, now) => needsRefreshLocked(creds, now))
    /\ [][\A t \in Threads :
            /\ (pc[t] = "rin_rlock" /\ pc'[t] # "rin_rlock" /\ creds.rt # NoTok
                  /\ Unavailable(creds, n0[t]))
                 => pc'[t] = "rin_lock"
            /\ (pc[t] = "rin_lock" /\ pc'[t] # "rin_lock" /\ creds.rt # NoTok
                  /\ Unavailable(creds, now))
                 => (InFlight(t))'
            /\ (pc[t] = "rin_rlock" /\ pc'[t] # "rin_rlock" /\ Valid(creds, n0[t])
                  /\ creds.exp >= n0[t] + RefreshInterval)
                 => pc'[t] # "rin_lock"
            /\ (pc[t] = "rin_lock" /\ pc'[t] # "rin_lock" /\ Valid(creds, now)
                  /\ creds.exp >= now + RefreshInterval)
                 => ~(InFlight(t))']_vars

\* C35 witness: the refresher is being called for a record whose token has
\* expired, by a loop tick.
C35_Witness ==
    \E l \in Loops :
        /\ InFlight(l)
        /\ creds.at # NoTok /\ creds.rt # NoTok
        /\ creds.exp # ZeroTime /\ creds.exp <= now

\* the last refreshLocked of the manager of `provider` succeeded
Refreshed(provider) ==
    Returned("refreshLocked") /\ call.provider = provider /\ call.err = NoErr

\* C36: a successful Claude refresh preserves the provider metadata (Scopes,
\* SubscriptionType, IsMax, RateLimitTier): after any number of successful
\* refreshes the record in memory and the record in the saved file carry the
\* metadata that was loaded.
C36_ClaudeMetadataPreserved ==
    Refreshed("claude") =>
        /\ call.creds.meta = call.loaded.meta
        /\ ClaudeStoreLoad(ClaudeStoreSave(NoFile, call.creds)).creds.meta = call.loaded.meta

\* C37: for ChatGPT, a loaded record with a non-empty AccountID keeps the
\* ChatGPT-Account-Id header through any sequence of successful refreshes (the
\* response's account_id when it has one, the id held before otherwise), and
\* the stored API key is not lost.
C37_ChatGPTAccountKept ==
    (Refreshed("chatgpt") /\ call.loaded.meta.accountID # "") =>
        LET h == ChatGPTExtraHeaders(call.creds.meta)
        IN  /\ hAccountId \in DOMAIN h
            /\ h[hAccountId] \in { << <<"acct-loaded">> >>, << <<"acct-1">> >> }
            /\ call.resp.accountID # "" => h[hAccountId] = << <<call.resp.accountID>> >>
            /\ call.creds.meta.apiKey = call.loaded.meta.apiKey

\* C38: the ChatGPT-Account-Id header of a ChatGPT upstream request has
\* exactly one value, the account id of the credential manager, whatever the
\* downstream request carried; a value supplied by the client never appears.
C38_AccountIdFromManager ==
    (Returned("BuildUpstreamRequest") /\ call.provider = "chatgpt") =>
        /\ AccountIDOf(call.meta) # NoTok =>
              /\ hAccountId \in DOMAIN call.out
              /\ call.out[hAccountId] = << <<AccountIDOf(call.meta)>> >>
        /\ hAccountId \in DOMAIN call.out =>
              \A i \in 1..Len(call.out[hAccountId]) :
                  call.out[hAccountId][i] # <<"acct-client">>

\* C39: the Claude upstream path is the base path followed by the trimmed
\* path unchanged; the ChatGPT upstream path is the base path followed by the
\* trimmed path without its leading /v1 segment (the trimmed path is /v1 or
\* begins with /v1/), while a path such as /v1beta/x or /v10/x is forwarded
\* unchanged; the query string is preserved in both.
C39_PathRewriting ==
    Returned("buildURL") =>
        LET base == WithoutSlash(call.base)
            seg == <<"/","v","1">>
        IN  /\ call.out.query = call.query
            /\ call.provider = "claude" => call.out.path = base \o call.path
            /\ call.provider = "chatgpt" =>
                  IF call.path = seg
                  THEN call.out.path \in {base, base \o <<"/">>}
                  ELSE IF HasPrefix(call.path, seg \o <<"/">>)
                  THEN call.out.path = base \o SubSeq(call.path, Len(seg) + 1, Len(call.path))
                  ELSE call.out.path = base \o call.path

====
